---- MODULE Spec2Model ----
(***************************************************************************)
(* The QuickJS worker of functions/cmd/quickjs-worker/main.c as a state    *)
(* machine: startup, bundle load, the NDJSON dispatch loop, the guest      *)
(* callbacks (console bridge, print, job queue) and the byte-level record  *)
(* formatting on stdout.                                                   *)
(*                                                                         *)
(* Strings are sequences of numbers: a C string is a sequence of bytes     *)
(* (1..255, it ends before the first 0), a guest (JS) string a sequence of *)
(* code units.  NULLPTR stands for the C null pointer.                     *)
(***************************************************************************)
EXTENDS Integers, Sequences, FiniteSets, TLC

VARIABLES
  pc,                 \* where main is: "main", "new_runtime", "shims",
                      \* "disable_eval", "load_bundle", "read", "await", "exited"
  env,                \* the environment the process was started with
  worker_id,          \* the C buffer worker_id
  caps,               \* the capabilities structure caps
  rlimit,             \* the process's resource limits (RLIMIT_AS, RLIMIT_NOFILE)
  rt,                 \* "NULL", or "created" once runtime and context exist
  globals,            \* the properties of the guest's global object
  stdout,             \* the lines written to stdout, in order
  exit_status,        \* "running", "exit0", "exit1" or "killed"
  handler_func,       \* "undefined", or the export retained: "default", "handler"
  current_invoke_id,  \* the C buffer current_invoke_id
  jobs,               \* the engine's queue of pending jobs
  bundle,             \* the file at BUNDLE_PATH and what its code does
  nlines,             \* stdin lines read so far
  served,             \* history: the invoke lines consumed, in order
  freed,              \* what main has released on its way out, in order
  shim                \* a call new Request(input, init) of guest code: its
                      \* arguments and the object constructed

vars == <<pc, env, worker_id, caps, rlimit, rt, globals, stdout, exit_status,
          handler_func, current_invoke_id, jobs, bundle, nlines, served, freed,
          shim>>

\* what startup sets and nothing after startup changes
startup == <<env, worker_id, caps, rlimit, rt, globals>>

-----------------------------------------------------------------------------
(* Bounds of the model.                                                    *)

\* stdin lines the host sends before it closes stdin
MaxLines == 2

-----------------------------------------------------------------------------
(* Sequence helpers.  Both recurse by halving the range, so that a body of *)
(* sixteen thousand bytes is handled without deep recursion.               *)

Min(a, b) == IF a < b THEN a ELSE b

\* left fold of step over s, threading the state st0 through every element
FoldSeq(step(_, _), st0, s) ==
  LET RECURSIVE F(_, _, _)
      F(lo, hi, st) ==
        IF lo > hi THEN st
        ELSE IF lo = hi THEN step(st, s[lo])
        ELSE LET mid  == (lo + hi) \div 2
                 left == F(lo, mid, st)
             IN  IF left = left THEN F(mid + 1, hi, left) ELSE left
  IN  F(1, Len(s), st0)

\* concatenation of f(s[1]), f(s[2]), ...
FlatMap(f(_), s) ==
  LET RECURSIVE G(_, _)
      G(lo, hi) ==
        IF lo > hi THEN << >>
        ELSE IF lo = hi THEN f(s[lo])
        ELSE LET mid == (lo + hi) \div 2 IN G(lo, mid) \o G(mid + 1, hi)
  IN  G(1, Len(s))

\* n copies of the byte c
Rep(c, n) == [i \in 1..n |-> c]

NULLPTR == << -1 >>

\* what C sees of a buffer: the bytes before the first NUL (strlen, %s)
cstr(s) ==
  LET Z == {i \in DOMAIN s : s[i] = 0}
  IN  IF Z = {} THEN s
      ELSE SubSeq(s, 1, (CHOOSE i \in Z : \A k \in Z : i <= k) - 1)

\* snprintf(buf, size, ...): at most size - 1 bytes of the formatted text
snprintf(size, text) == SubSeq(text, 1, Min(Len(text), size - 1))

\* printf's %d of a C int
RECURSIVE DecDigits(_)
DecDigits(n) == IF n < 10 THEN << 48 + n >>
                ELSE Append(DecDigits(n \div 10), 48 + (n % 10))
fmt_d(n) == IF n < 0 THEN << 45 >> \o DecDigits(0 - n) ELSE DecDigits(n)

\* JS_ToCString of a guest string: UTF-8 bytes, read by C up to the first NUL
utf8(c) == IF c < 128 THEN << c >>
           ELSE IF c < 2048 THEN << 192 + (c \div 64), 128 + (c % 64) >>
           ELSE << 224 + (c \div 4096), 128 + ((c \div 64) % 64), 128 + (c % 64) >>
JS_ToCString(s) ==
  IF \A i \in DOMAIN s : s[i] < 128 THEN cstr(s) ELSE cstr(FlatMap(utf8, s))

-----------------------------------------------------------------------------
(* Text constants of the source.                                           *)

T_ready    == <<114, 101, 97, 100, 121>>
T_error    == <<101, 114, 114, 111, 114>>
T_response == <<114, 101, 115, 112, 111, 110, 115, 101>>
T_log      == <<108, 111, 103>>
T_empty_object == <<123, 125>>                                    \* {}
T_unknown_error == <<85, 110, 107, 110, 111, 119, 110, 32, 101, 114, 114, 111, 114>>
T_UNKNOWN_ERROR == <<85, 78, 75, 78, 79, 87, 78, 95, 69, 82, 82, 79, 82>>
T_info     == <<105, 110, 102, 111>>
T_warn     == <<119, 97, 114, 110>>
T_debug    == <<100, 101, 98, 117, 103>>
T_bundle   == <<98, 117, 110, 100, 108, 101>>
T_bundle_load == <<98, 117, 110, 100, 108, 101, 45, 108, 111, 97, 100>>
T_failed_to_load_bundle ==
  <<70, 97, 105, 108, 101, 100, 32, 116, 111, 32, 108, 111, 97, 100, 32,
    98, 117, 110, 100, 108, 101>>
T_BUNDLE_LOAD_ERROR ==
  <<66, 85, 78, 68, 76, 69, 95, 76, 79, 65, 68, 95, 69, 82, 82, 79, 82>>
T_handler_not_loaded ==
  <<72, 97, 110, 100, 108, 101, 114, 32, 110, 111, 116, 32, 108, 111, 97, 100, 101, 100>>
T_HANDLER_NOT_LOADED ==
  <<72, 65, 78, 68, 76, 69, 82, 95, 78, 79, 84, 95, 76, 79, 65, 68, 69, 68>>
T_REQUEST_CREATION_ERROR ==
  <<82, 69, 81, 85, 69, 83, 84, 95, 67, 82, 69, 65, 84, 73, 79, 78, 95,
    69, 82, 82, 79, 82>>
T_HANDLER_ERROR == <<72, 65, 78, 68, 76, 69, 82, 95, 69, 82, 82, 79, 82>>
T_missing_payload ==
  <<77, 105, 115, 115, 105, 110, 103, 32, 112, 97, 121, 108, 111, 97, 100, 32,
    105, 110, 32, 105, 110, 118, 111, 107, 101, 32, 109, 101, 115, 115, 97, 103, 101>>
T_INVALID_MESSAGE == <<73, 78, 86, 65, 76, 73, 68, 95, 77, 69, 83, 83, 65, 71, 69>>
T_unknown  == <<117, 110, 107, 110, 111, 119, 110>>
T_GET      == <<71, 69, 84>>
T_slash    == <<47>>

\* the base64 alphabet of execute_handler (index 0..63 at positions 1..64)
base64_chars ==
  <<65, 66, 67, 68, 69, 70, 71, 72, 73, 74, 75, 76, 77, 78, 79, 80, 81, 82, 83,
    84, 85, 86, 87, 88, 89, 90, 97, 98, 99, 100, 101, 102, 103, 104, 105, 106,
    107, 108, 109, 110, 111, 112, 113, 114, 115, 116, 117, 118, 119, 120, 121,
    122, 48, 49, 50, 51, 52, 53, 54, 55, 56, 57, 43, 47>>

-----------------------------------------------------------------------------
(* The NDJSON writers.  A line of stdout is kept as the arguments of the    *)
(* printf that wrote it; LineBytes gives its bytes.                         *)

PAYLOAD_ERROR_SIZE == 1024
ESCAPED_BODY_SIZE == 16384
PAYLOAD_RESPONSE_SIZE == 32768
MSG_ESCAPED_SIZE == 768
PAYLOAD_LOG_SIZE == 1024

\* printf("{\"id\":\"%s\",\"type\":\"%s\",\"payload\":%s}\n", id, type, payload)
send_message(type, id, payload) ==
  [via |-> "send_message", type |-> type, id |-> id, payload |-> payload]

send_ready(wid) == send_message(T_ready, wid, T_empty_object)

send_error(id, message, code) ==
  send_message(T_error, id,
    snprintf(PAYLOAD_ERROR_SIZE,
      <<123, 34, 109, 101, 115, 115, 97, 103, 101, 34, 58, 34>>     \* {"message":"
      \o (IF message = NULLPTR THEN T_unknown_error ELSE message)
      \o <<34, 44, 34, 99, 111, 100, 101, 34, 58, 34>>              \* ","code":"
      \o (IF code = NULLPTR THEN T_UNKNOWN_ERROR ELSE code)
      \o <<34, 125>>))                                              \* "}

\* the escaping of one byte in send_response and escape_json_str
escape_char(c) ==
  IF c = 34 THEN <<92, 34>>
  ELSE IF c = 92 THEN <<92, 92>>
  ELSE IF c = 10 THEN <<92, 110>>
  ELSE IF c = 13 THEN <<92, 114>>
  ELSE << c >>

\* the loop of send_response: bytes are taken while j < sizeof(escaped_body) - 1
\* (when no byte needs escaping, j = i and the loop copies a prefix)
escaped_body(body_base64) ==
  LET step(st, c) ==
        IF st.j < ESCAPED_BODY_SIZE - 1
        THEN [i |-> st.i + 1, j |-> st.j + Len(escape_char(c))]
        ELSE st
      taken == FoldSeq(step, [i |-> 0, j |-> 0], body_base64).i
  IN  IF \A i \in DOMAIN body_base64 : body_base64[i] \notin {34, 92, 10, 13}
      THEN SubSeq(body_base64, 1, Min(Len(body_base64), ESCAPED_BODY_SIZE - 1))
      ELSE FlatMap(escape_char, SubSeq(body_base64, 1, taken))

send_response(id, status, headers_json, body_base64) ==
  send_message(T_response, id,
    snprintf(PAYLOAD_RESPONSE_SIZE,
      <<123, 34, 115, 116, 97, 116, 117, 115, 34, 58>>              \* {"status":
      \o fmt_d(status)
      \o <<44, 34, 104, 101, 97, 100, 101, 114, 115, 34, 58>>       \* ,"headers":
      \o (IF headers_json = NULLPTR THEN T_empty_object ELSE headers_json)
      \o <<44, 34, 98, 111, 100, 121, 34, 58, 34>>                  \* ,"body":"
      \o (IF body_base64 = NULLPTR THEN << >> ELSE escaped_body(body_base64))
      \o <<34, 125>>))                                              \* "}

\* escape_json_str: a byte is taken while j < out_size - 1, an escaped one
\* only while j + 2 < out_size
escape_json_str(in, out_size) ==
  LET step(st, c) ==
        IF st.stop \/ st.j >= out_size - 1 THEN [st EXCEPT !.stop = TRUE]
        ELSE IF Len(escape_char(c)) = 2 /\ st.j + 2 >= out_size
             THEN [st EXCEPT !.stop = TRUE]
        ELSE [i |-> st.i + 1, j |-> st.j + Len(escape_char(c)), stop |-> FALSE]
      taken == FoldSeq(step, [i |-> 0, j |-> 0, stop |-> FALSE], in).i
  IN  IF out_size = 0 THEN << >>
      ELSE FlatMap(escape_char, SubSeq(in, 1, taken))

send_log(id, level, message) ==
  send_message(T_log, id,
    snprintf(PAYLOAD_LOG_SIZE,
      <<123, 34, 108, 101, 118, 101, 108, 34, 58, 34>>              \* {"level":"
      \o (IF level = NULLPTR THEN T_info ELSE level)
      \o <<34, 44, 34, 109, 101, 115, 115, 97, 103, 101, 34, 58, 34>> \* ","message":"
      \o escape_json_str(IF message = NULLPTR THEN << >> ELSE message, MSG_ESCAPED_SIZE)
      \o <<34, 125>>))                                              \* "}

\* js_print, the print global that js_std_add_helpers installs: the text
\* and a newline straight to stdout
js_print(text) ==
  [via |-> "js_print", type |-> << >>, id |-> << >>, payload |-> text]

\* the bytes of a line of stdout, without its newline
LineBytes(l) ==
  IF l.via = "js_print" THEN l.payload
  ELSE <<123, 34, 105, 100, 34, 58, 34>> \o l.id                    \* {"id":"
       \o <<34, 44, 34, 116, 121, 112, 101, 34, 58, 34>> \o l.type  \* ","type":"
       \o <<34, 44, 34, 112, 97, 121, 108, 111, 97, 100, 34, 58>>   \* ","payload":
       \o l.payload \o <<125>>

-----------------------------------------------------------------------------
(* Guest values.  JS_UNDEFINED and JS_NULL are the two non-string values a  *)
(* body, a status or a headers property may hold here.                     *)

JS_UNDEFINED == << -2 >>
JS_NULL == << -3 >>

-----------------------------------------------------------------------------
(* The base64 polyfill of add_base64_polyfills (guest side) and the base64  *)
(* loop of execute_handler (host side).                                    *)

ENCODED_BODY_SIZE == 16384

\* index of the byte c in the polyfill's chars string, "=" included; -1 if absent
chars_indexOf(c) ==
  IF c = 61 THEN 64
  ELSE IF \E k \in 1..64 : base64_chars[k] = c
       THEN (CHOOSE k \in 1..64 : base64_chars[k] = c) - 1
       ELSE -1

\* str.replace(/=+$/, ''): the string without its trailing "=" signs
RECURSIVE strip_padding(_)
strip_padding(s) ==
  IF Len(s) > 0 /\ s[Len(s)] = 61 THEN strip_padding(SubSeq(s, 1, Len(s) - 1)) ELSE s

\* 255 & bs >> (-2 * bc & 6), bc being the count after bc++
atob_shift(bs, bc) ==
  LET sh == IF bc % 4 = 2 THEN 16 ELSE IF bc % 4 = 3 THEN 4 ELSE 1
  IN  (bs \div sh) % 256

\* globalThis.atob: NULLPTR stands for the thrown Error
atob(input) ==
  LET str == strip_padding(input)
      step(st, ch) ==
        LET buffer == chars_indexOf(ch)
            bs == IF st.bc % 4 # 0 THEN st.bs * 64 + buffer ELSE buffer
        IN  IF buffer = -1 THEN st
            ELSE IF st.bc % 4 # 0
                 THEN [bc |-> st.bc + 1, bs |-> bs,
                       output |-> Append(st.output, atob_shift(bs, st.bc + 1))]
                 ELSE [bc |-> st.bc + 1, bs |-> bs, output |-> st.output]
  IN  IF Len(str) % 4 = 1 THEN NULLPTR
      ELSE FoldSeq(step, [bc |-> 0, bs |-> 0, output |-> << >>], str).output

\* the encoding loop of execute_handler over the C string body_str:
\* for (i = 0; i < len && j < sizeof(encoded_body) - 4; i += 3)
encoded_body(body_str) ==
  LET len    == Len(body_str)
      groups == Min((len + 2) \div 3, (ENCODED_BODY_SIZE - 4 + 3) \div 4)
      byte(i) == IF i < len THEN body_str[i + 1] ELSE 0
      b(g)   == byte(3 * g) * 65536 + byte(3 * g + 1) * 256 + byte(3 * g + 2)
      char(p) ==
        LET g == (p - 1) \div 4
            k == (p - 1) % 4
        IN  IF k = 0 THEN base64_chars[((b(g) \div 262144) % 64) + 1]
            ELSE IF k = 1 THEN base64_chars[((b(g) \div 4096) % 64) + 1]
            ELSE IF k = 2 THEN IF 3 * g + 1 < len
                               THEN base64_chars[((b(g) \div 64) % 64) + 1] ELSE 61
            ELSE IF 3 * g + 2 < len THEN base64_chars[(b(g) % 64) + 1] ELSE 61
  IN  [p \in 1..(4 * groups) |-> char(p)]

-----------------------------------------------------------------------------
(* execute_handler: the request template and the response extraction.      *)

REQUEST_CODE_SIZE == 8192
FULL_URL_SIZE == 1024
\* characters of the template text of request_code outside its six %s
REQUEST_TEMPLATE_TEXT_LEN == 337
CURRENT_INVOKE_ID_SIZE == 64

\* strncpy(current_invoke_id, invoke_id, 63) and the terminating NUL
set_current_invoke_id(invoke_id) ==
  SubSeq(invoke_id, 1, Min(Len(invoke_id), CURRENT_INVOKE_ID_SIZE - 1))

\* a byte that ends or breaks a single-quoted literal of the template
breaks_literal(s) == \E i \in DOMAIN s : s[i] \in {39, 92, 10, 13}

T_undefined == <<117, 110, 100, 101, 102, 105, 110, 101, 100>>
T_null == <<110, 117, 108, 108>>
T_syntax_error == <<83, 121, 110, 116, 97, 120, 69, 114, 114, 111, 114>>
T_type_error == <<84, 121, 112, 101, 69, 114, 114, 111, 114>>
T_atob_error == <<69, 114, 114, 111, 114, 58, 32, 39, 97, 116, 111, 98, 39>>

\* JS_Eval of request_code: [exception |-> text] when the evaluation throws,
\* else the Request handed to the handler.  A template cut by snprintf or a
\* literal broken by a quote does not parse; Object.entries throws on a query
\* that is not an object; atob throws on a malformed body.
request_eval(method, path, headers_json, query_json, body_base64) ==
  LET full_url == snprintf(FULL_URL_SIZE, path)
      length   == REQUEST_TEMPLATE_TEXT_LEN + Len(full_url) + Len(query_json)
                  + Len(headers_json) + 2 * Len(body_base64) + Len(method)
      body     == IF body_base64 = << >> THEN JS_NULL ELSE atob(body_base64)
  IN  IF length > REQUEST_CODE_SIZE - 1 THEN [exception |-> T_syntax_error]
      ELSE IF breaks_literal(full_url) \/ breaks_literal(body_base64)
              \/ breaks_literal(method) THEN [exception |-> T_syntax_error]
      ELSE IF query_json \in {T_undefined, T_null} THEN [exception |-> T_type_error]
      ELSE IF body = NULLPTR THEN [exception |-> T_atob_error]
      ELSE [exception |-> NULLPTR, method |-> method, url |-> full_url,
            \* new Headers(init.headers || this.headers): no entry when the
            \* template's headers is undefined or null
            headers |-> IF headers_json \in {T_undefined, T_null}
                        THEN T_empty_object ELSE headers_json,
            \* init.body || this.body || null
            body |-> IF body = << >> THEN JS_NULL ELSE body]

\* the headers JSON of the response: _headers, else headers, else the object.
\* A headers value holds the JSON.stringify text of each candidate map
\* (NULLPTR when JSON.stringify gives no string).
headers_str(headers_val) ==
  IF headers_val.undefined THEN T_empty_object
  ELSE LET headers_map ==
             IF headers_val._headers # JS_UNDEFINED THEN headers_val._headers
             ELSE IF headers_val.headers # JS_UNDEFINED THEN headers_val.headers
             ELSE headers_val.self
       IN  IF headers_map = NULLPTR THEN T_empty_object ELSE headers_map

\* the response line execute_handler writes for the awaited value val
response_of(invoke_id, val) ==
  send_response(invoke_id,
    IF val.status = JS_UNDEFINED THEN 200 ELSE val.status[1],
    headers_str(val.headers),
    IF val.body = JS_UNDEFINED \/ val.body = JS_NULL THEN << >>
    ELSE encoded_body(JS_ToCString(val.body)))

-----------------------------------------------------------------------------
(* Inputs: the host's stdin lines, the environment and the bundle file,    *)
(* and what the guest code of the bundle does.                             *)

A63 == Rep(97, 63)                       \* an id of 63 bytes
A64 == Rep(97, 64)                       \* an id of 64 bytes
ID_QUOTE == <<97, 34, 98>>               \* the id a"b
InvokeIds == {A63, A64, ID_QUOTE}

T_hi == <<47, 104, 105>>                 \* /hi
T_bad_path == <<47, 39>>                 \* /'
T_ok == <<111, 107>>                     \* ok
T_boom == <<69, 114, 114, 111, 114, 58, 32, 98, 111, 111, 109>>   \* Error: boom
T_quoted == <<69, 114, 114, 111, 114, 58, 32, 97, 34, 98>>        \* Error: a"b
T_worker_id == <<119, 49>>               \* WORKER_ID=w1

\* the environment: value is the text of a variable, NULLPTR when it is unset;
\* set holds the names of the flag variables that are set (to any text)
Env(WORKER_ID, pid, set, MAX_MEMORY, MAX_FDS) ==
  [WORKER_ID |-> WORKER_ID, pid |-> pid, set |-> set,
   MAX_MEMORY |-> MAX_MEMORY, MAX_FDS |-> MAX_FDS]

W64 == Rep(119, 64)                      \* a WORKER_ID of 64 bytes
T_256 == <<50, 53, 54>>                  \* 256
T_2048 == <<50, 48, 52, 56>>             \* 2048
T_8192 == <<56, 49, 57, 50>>             \* 8192
T_0 == <<48>>                            \* 0
T_1000000 == <<49, 48, 48, 48, 48, 48, 48>>

\* the process ids two worker processes of one host can have
Pids == {4242, 4243}

DefaultEnv == Env(T_worker_id, 4242, {}, NULLPTR, NULLPTR)
Envs ==
  { DefaultEnv,
    Env(NULLPTR, 4242, {}, NULLPTR, NULLPTR),
    Env(W64, 4242, {"ALLOW_EVAL"}, NULLPTR, NULLPTR),
    Env(T_worker_id, 4242, {"ALLOW_EVAL"}, T_1000000, T_256),
    Env(T_worker_id, 4242, {}, T_1000000, T_2048),
    Env(T_worker_id, 4242, {}, T_0, T_8192) }

\* a resource limit as getrlimit reports it; RLIM_INFINITY stands for no limit
RLIM_INFINITY == -1
Rlimit(as_cur, as_max, nofile_cur, nofile_max) ==
  [as |-> [rlim_cur |-> as_cur, rlim_max |-> as_max],
   nofile |-> [rlim_cur |-> nofile_cur, rlim_max |-> nofile_max],
   enforced |-> FALSE]
DefaultRlimit == Rlimit(RLIM_INFINITY, RLIM_INFINITY, 1024, 4096)

\* the payload of an invoke line, as the C strings process_messages extracts
Payload(method, path, headers_json, query_json, body_base64) ==
  [method |-> method, path |-> path, headers_json |-> headers_json,
   query_json |-> query_json, body_base64 |-> body_base64]
NoPayload == Payload(<< >>, << >>, << >>, << >>, << >>)

\* the payload object of an invoke line: each property is a string (for
\* headers and query, the JSON text of an object) or JS_UNDEFINED when the
\* object does not have it
PayloadObject(method, path, headers, query, body) ==
  [method |-> method, path |-> path, headers |-> headers, query |-> query, body |-> body]

\* process_messages turning the payload's properties into the arguments of
\* execute_handler: JS_ToCString gives the text undefined for an undefined
\* value, JS_JSONStringify gives undefined for undefined, and the defaults
\* of the call stand in for a null pointer only
extract_payload(o) ==
  LET to_cstring(v) == IF v = JS_UNDEFINED THEN T_undefined ELSE JS_ToCString(v)
      or_default(c, d) == IF c = NULLPTR THEN d ELSE c
  IN  Payload(or_default(to_cstring(o.method), T_GET),
              or_default(to_cstring(o.path), T_slash),
              or_default(to_cstring(o.headers), T_empty_object),
              or_default(to_cstring(o.query), T_empty_object),
              or_default(to_cstring(o.body), << >>))

\* a stdin line: empty, not JSON, JSON of another type, or an invoke; pad is
\* the number of blanks that follow the text of the line, omitted the
\* properties its payload object does not have
Line(kind, id, has_payload, payload) ==
  [kind |-> kind, id |-> id, has_payload |-> has_payload, payload |-> payload,
   pad |-> 0, omitted |-> {}]
Padded(l, n) == [l EXCEPT !.pad = n]

\* the bytes a string takes inside a JSON text: quote and backslash are
\* written with a backslash before them
json_length(str) == Len(str) + Cardinality({i \in DOMAIN str : str[i] \in {34, 92}})

\* the number of bytes getline reads for the line, its newline not counted:
\* {"type":"invoke","id":"..","payload":{"method":"..","path":"..",
\* "headers":..,"query":..,"body":".."}} for an invoke with a payload
line_length(l) ==
  l.pad +
  ( CASE l.kind = "empty" -> 0
      [] l.kind = "malformed" -> 1
      [] l.kind = "other_type" -> 12
      [] l.kind = "invoke" /\ ~l.has_payload -> 25 + json_length(l.id)
      [] OTHER -> 89 + json_length(l.id) + json_length(l.payload.method)
                  + json_length(l.payload.path) + Len(l.payload.headers_json)
                  + Len(l.payload.query_json) + json_length(l.payload.body_base64) )

\* MAX_LINE_LENGTH of the source
MAX_LINE_LENGTH == 1048576

Payloads ==
  { Payload(T_GET, T_hi, T_empty_object, T_empty_object, << >>),
    Payload(T_GET, T_bad_path, T_empty_object, T_empty_object, << >>) }

StdinLines ==
  { Line(k, << >>, FALSE, NoPayload) : k \in {"empty", "malformed", "other_type"} }
  \cup { Line("invoke", id, FALSE, NoPayload) : id \in InvokeIds }
  \cup { Line("invoke", id, TRUE, p) : id \in InvokeIds, p \in Payloads }

\* a Headers object of the Response shim holding no entry
EmptyHeaders ==
  [undefined |-> FALSE, _headers |-> T_empty_object, headers |-> T_empty_object,
   self |-> T_empty_object]

\* the object a handler hands back: its status, headers and body properties
Value(status, headers, body) == [status |-> status, headers |-> headers, body |-> body]
NoValue == Value(JS_UNDEFINED, EmptyHeaders, JS_UNDEFINED)

\* one operation of guest code: a console call, a call of print, or a job
\* put on the engine's queue ("log": a callback that logs; "fulfil" and
\* "reject": the settling of the promise the running code handed back)
Console(level, message) ==
  [op |-> "console", level |-> level, text |-> message, kind |-> "none"]

\* the console object of add_console_override: each method calls
\* __bunbase_log with its level; log and info share "info"
console_level(method) ==
  CASE method = "log" -> T_info
    [] method = "info" -> T_info
    [] method = "warn" -> T_warn
    [] method = "error" -> T_error
    [] method = "debug" -> T_debug
ConsoleMethod(method, message) == Console(console_level(method), message)

\* a level no method of console uses: guest code calling the global
\* __bunbase_log itself passes whatever level it likes
T_fatal == <<102, 97, 116, 97, 108>>                                \* fatal

GuestPrint(text) == [op |-> "print", level |-> << >>, text |-> text, kind |-> "none"]
Enqueue(kind) == [op |-> "queue", level |-> << >>, text |-> << >>, kind |-> kind]

\* what a call of guest code does: the operations of its synchronous part,
\* then how it ends: "value" (a plain value), "throw", or a promise that is
\* "fulfilled", "rejected" or "pending" when the call returns.  echo: the
\* value is new Response(req.body)
Behaviour(script, how, val, exc, echo) ==
  [script |-> script, how |-> how, val |-> val, exc |-> exc, echo |-> echo]

OkValue == Value(<<200>>, EmptyHeaders, T_ok)

HandlerBehaviours ==
  { Behaviour(<< >>, "value", OkValue, NULLPTR, FALSE),
    Behaviour(<<Console(T_info, T_ok)>>, "value", OkValue, NULLPTR, FALSE),
    Behaviour(<<GuestPrint(T_ok)>>, "value", OkValue, NULLPTR, FALSE),
    Behaviour(<< >>, "throw", NoValue, T_quoted, FALSE),
    Behaviour(<< >>, "fulfilled", OkValue, NULLPTR, FALSE),
    Behaviour(<<Enqueue("log")>>, "fulfilled", OkValue, NULLPTR, FALSE),
    Behaviour(<< >>, "rejected", NoValue, T_quoted, FALSE),
    Behaviour(<<Enqueue("log"), Enqueue("fulfil")>>, "pending", OkValue, NULLPTR, FALSE),
    Behaviour(<<Enqueue("fulfil"), Enqueue("log")>>, "pending", OkValue, NULLPTR, FALSE),
    Behaviour(<<Enqueue("reject")>>, "pending", NoValue, T_quoted, FALSE),
    Behaviour(<< >>, "pending", NoValue, NULLPTR, FALSE) }

\* the ids of the invokes that carry a body
T_r1 == <<114, 49>>                      \* r1
T_r2 == <<114, 50>>                      \* r2
BodyIds == {T_r1, T_r2}

\* (req) => new Response(req.body)
Echo == Behaviour(<< >>, "value", NoValue, NULLPTR, TRUE)

\* a body one byte longer than what fills encoded_body
LongBody == Rep(97, 3 * ((ENCODED_BODY_SIZE - 4 + 3) \div 4) + 1)

T_headers_ab == <<123, 34, 97, 34, 58, 34, 98, 34, 125>>             \* {"a":"b"}
T_headers_cd == <<123, 34, 99, 34, 58, 34, 100, 34, 125>>            \* {"c":"d"}

\* the handlers that serve an invoke carrying a body: the echo; for one of
\* them a handler handing back the long body; for another, handlers handing
\* back a plain object without status and with a null body whose headers are
\* a plain object, an object with a headers property, or missing, and a
\* Response with status 404 whose Headers object holds one entry
BodyBehaviours(l) ==
  IF l.id = T_r1 /\ l.payload.body_base64 = << >>
  THEN {Echo, Behaviour(<< >>, "value", Value(<<200>>, EmptyHeaders, LongBody),
                        NULLPTR, FALSE)}
  ELSE IF l.id = T_r2 /\ l.payload.body_base64 = << >>
  THEN {Echo,
        Behaviour(<< >>, "value",
                  Value(JS_UNDEFINED,
                        [undefined |-> FALSE, _headers |-> JS_UNDEFINED,
                         headers |-> JS_UNDEFINED, self |-> T_headers_ab],
                        JS_NULL), NULLPTR, FALSE),
        Behaviour(<< >>, "fulfilled",
                  Value(JS_UNDEFINED,
                        [undefined |-> FALSE, _headers |-> JS_UNDEFINED,
                         headers |-> T_headers_cd, self |-> T_headers_ab],
                        JS_UNDEFINED), NULLPTR, FALSE),
        Behaviour(<< >>, "value",
                  Value(<<200>>,
                        [undefined |-> TRUE, _headers |-> JS_UNDEFINED,
                         headers |-> JS_UNDEFINED, self |-> JS_UNDEFINED],
                        T_ok), NULLPTR, FALSE),
        Behaviour(<< >>, "fulfilled",
                  Value(<<404>>,
                        [undefined |-> FALSE, _headers |-> T_headers_ab,
                         headers |-> T_headers_cd, self |-> T_headers_cd],
                        T_ok), NULLPTR, FALSE)}
  ELSE {Echo}

\* what the handler may do when it is called for the line l
Behaviours(l) == IF l.id \in BodyIds THEN BodyBehaviours(l) ELSE HandlerBehaviours

\* the environment and the bundle file: BUNDLE_PATH set or not, the file and
\* what each step of load_bundle finds, the module's top-level code
Bundle(has_path, readable, size, compiles, resolves, import_meta, top_level, default_fn, handler_fn) ==
  [has_path |-> has_path, readable |-> readable, size |-> size,
   compiles |-> compiles, resolves |-> resolves, import_meta |-> import_meta,
   top_level |-> top_level, default_fn |-> default_fn, handler_fn |-> handler_fn]

MAX_BUNDLE_SIZE == 10485760

\* the message of the exception JS_Eval leaves behind for a bundle that does
\* not compile
compile_exception(b) == IF b.compiles THEN NULLPTR ELSE T_syntax_error

TopLevelOk == Behaviour(<< >>, "fulfilled", NoValue, NULLPTR, FALSE)
GoodBundle == Bundle(TRUE, TRUE, 100, TRUE, TRUE, TRUE, TopLevelOk, TRUE, FALSE)
Bundles ==
  { GoodBundle,
    [GoodBundle EXCEPT !.default_fn = FALSE, !.handler_fn = TRUE],
    [GoodBundle EXCEPT !.top_level.script = <<Console(T_info, T_ok)>>],
    [GoodBundle EXCEPT !.top_level.script = <<Enqueue("fulfil")>>,
                       !.top_level.how = "pending"],
    [GoodBundle EXCEPT !.has_path = FALSE],
    [GoodBundle EXCEPT !.readable = FALSE],
    [GoodBundle EXCEPT !.size = MAX_BUNDLE_SIZE + 1],
    [GoodBundle EXCEPT !.compiles = FALSE],
    [GoodBundle EXCEPT !.resolves = FALSE],
    [GoodBundle EXCEPT !.import_meta = FALSE],
    [GoodBundle EXCEPT !.top_level.how = "throw", !.top_level.exc = T_boom,
                       !.top_level.script = <<Console(T_info, T_ok)>>],
    [GoodBundle EXCEPT !.top_level.how = "rejected", !.top_level.exc = T_boom],
    [GoodBundle EXCEPT !.top_level.script = <<Enqueue("reject")>>,
                       !.top_level.how = "pending", !.top_level.exc = T_boom],
    [GoodBundle EXCEPT !.default_fn = FALSE] }

-----------------------------------------------------------------------------
(* Guest code and the engine's job queue.                                  *)

\* (variant) js_bunbase_log tagging a log outside an invocation "unknown"
js_bunbase_log_unknown(cur_id, level, message) ==
  send_log(IF cur_id # << >> THEN cur_id ELSE T_unknown,
           JS_ToCString(level), JS_ToCString(message))

\* js_bunbase_log, the C function behind console: the log line is tagged
\* with current_invoke_id, or "bundle" when that buffer is empty
js_bunbase_log(cur_id, level, message) ==
  send_log(IF cur_id # << >> THEN cur_id ELSE T_bundle,
           JS_ToCString(level), JS_ToCString(message))

\* the lines the synchronous part of guest code writes to stdout
guest_lines(script, cur_id) ==
  LET line(o) == IF o.op = "console"
                 THEN << js_bunbase_log(cur_id, o.level, o.text) >>
                 ELSE IF o.op = "print" THEN << js_print(JS_ToCString(o.text)) >>
                 ELSE << >>
  IN  FlatMap(line, script)

\* the jobs the synchronous part of guest code leaves on the queue; owner is
\* the call that queued them (0: the bundle's top level, k: the k-th invoke)
guest_jobs(script, owner, exc) ==
  LET job(o) == IF o.op = "queue"
                THEN << [kind |-> o.kind, owner |-> owner, exc |-> exc] >>
                ELSE << >>
  IN  FlatMap(job, script)

\* js_std_await(ctx, obj): while obj is a pending promise, run the job at the
\* head of the queue; return as soon as obj is settled or is no promise.  A
\* pending promise over an empty queue never returns (state stays "pending")
RECURSIVE js_std_await(_, _, _, _)
js_std_await(obj, queue, cur_id, owner) ==
  IF obj.state # "pending" \/ queue = << >>
  THEN [obj |-> obj, lines |-> << >>, jobs |-> queue]
  ELSE LET job   == Head(queue)
           after == IF job.owner = owner /\ job.kind = "fulfil"
                    THEN [obj EXCEPT !.state = "fulfilled"]
                    ELSE IF job.owner = owner /\ job.kind = "reject"
                    THEN [obj EXCEPT !.state = "rejected"]
                    ELSE obj
           out   == IF job.kind = "log"
                    THEN << js_bunbase_log(cur_id, T_info, T_ok) >> ELSE << >>
           rest  == js_std_await(after, Tail(queue), cur_id, owner)
       IN  [rest EXCEPT !.lines = out \o rest.lines]

-----------------------------------------------------------------------------
(* Startup: what main does before it loads the bundle.                     *)

\* strncpy(worker_id, wid, 63) into the zeroed buffer, or worker-<pid>
WORKER_ID_SIZE == 64
T_worker_dash == <<119, 111, 114, 107, 101, 114, 45>>               \* worker-
set_worker_id(e) ==
  IF e.WORKER_ID # NULLPTR
  THEN SubSeq(e.WORKER_ID, 1, Min(Len(e.WORKER_ID), WORKER_ID_SIZE - 1))
  ELSE snprintf(WORKER_ID_SIZE, T_worker_dash \o fmt_d(e.pid))

\* atol: blanks, an optional sign, then digits up to the first other byte
atol(text) ==
  LET step(st, c) ==
        IF st.phase = "blank" /\ c \in {32, 9, 10, 11, 12, 13} THEN st
        ELSE IF st.phase = "blank" /\ c = 45
        THEN [st EXCEPT !.phase = "digits", !.sign = -1]
        ELSE IF st.phase = "blank" /\ c = 43 THEN [st EXCEPT !.phase = "digits"]
        ELSE IF st.phase # "end" /\ c >= 48 /\ c <= 57
        THEN [st EXCEPT !.phase = "digits", !.val = 10 * st.val + (c - 48)]
        ELSE [st EXCEPT !.phase = "end"]
      r == FoldSeq(step, [phase |-> "blank", sign |-> 1, val |-> 0], text)
  IN  r.sign * r.val

\* atoi: the same reading, as an int (the texts used here fit one)
atoi(text) == atol(text)

\* setup_capabilities: the flags are set when the variable exists, the two
\* maxima stay 0 (static storage) when their variable is unset
setup_capabilities(e) ==
  [allow_filesystem |-> "ALLOW_FILESYSTEM" \in e.set,
   allow_network |-> "ALLOW_NETWORK" \in e.set,
   allow_child_process |-> "ALLOW_CHILD_PROCESS" \in e.set,
   allow_eval |-> "ALLOW_EVAL" \in e.set,
   max_memory |-> IF e.MAX_MEMORY # NULLPTR THEN atol(e.MAX_MEMORY) ELSE 0,
   max_fds |-> IF e.MAX_FDS # NULLPTR THEN atoi(e.MAX_FDS) ELSE 0]

\* new_limit of enforce_resource_limits: the configured value, but not above
\* the hard limit
new_limit(configured, rlim_max) ==
  IF rlim_max # RLIM_INFINITY /\ configured > rlim_max THEN rlim_max ELSE configured

\* setrlimit succeeds or fails as the platform decides
SetrlimitOutcomes == {"ok", "fails"}

\* enforce_resource_limits: a failing setrlimit is reported on stderr and
\* leaves the limit as it was
enforce_resource_limits(c, lim, as_set, nofile_set) ==
  [as |-> IF c.max_memory > 0 /\ as_set = "ok"
          THEN [lim.as EXCEPT !.rlim_cur = new_limit(c.max_memory, lim.as.rlim_max)]
          ELSE lim.as,
   nofile |-> IF c.max_fds > 0 /\ nofile_set = "ok"
              THEN [lim.nofile EXCEPT
                      !.rlim_cur = new_limit(c.max_fds, lim.nofile.rlim_max)]
              ELSE lim.nofile,
   enforced |-> TRUE]

\* the global object: which call installed each property
NoGlobals == [n \in {} |-> "none"]
Install(g, names, by) ==
  [n \in DOMAIN g \cup names |-> IF n \in names THEN by ELSE g[n]]
Delete(g, names) == [n \in DOMAIN g \ names |-> g[n]]

\* JS_NewContext and js_std_add_helpers (of the globals the engine defines,
\* only eval and Function are kept track of)
new_context_globals ==
  Install(Install(NoGlobals, {"eval", "Function"}, "JS_NewContext"),
          {"print", "console", "scriptArgs"}, "js_std_add_helpers")
add_base64_polyfills(g) == Install(g, {"btoa", "atob"}, "add_base64_polyfills")
add_web_apis(g) ==
  Install(g, {"URL", "URLSearchParams", "Response", "Headers", "Request"},
          "add_web_apis")
add_console_override(g) ==
  Install(g, {"__bunbase_log", "console"}, "add_console_override")

-----------------------------------------------------------------------------
(* load_bundle and execute_handler as functions of the state they read.    *)

\* (variant) load_bundle returning 0 when the module exports no handler
load_bundle_no_export_check(b, cur_id) ==
  LET static_ok == /\ b.readable
                   /\ b.size <= MAX_BUNDLE_SIZE
                   /\ b.compiles
                   /\ b.resolves
                   /\ b.import_meta
      ran    == guest_lines(b.top_level.script, cur_id)
      queued == guest_jobs(b.top_level.script, 0, b.top_level.exc)
      aw     == js_std_await([state |-> b.top_level.how], queued, cur_id, 0)
      export == IF b.default_fn THEN "default"
                ELSE IF b.handler_fn THEN "handler" ELSE "undefined"
  IN  IF ~static_ok
      THEN [ret |-> -1, lines |-> << >>, jobs |-> << >>, handler_func |-> "undefined",
            returned |-> TRUE]
      ELSE IF b.top_level.how = "throw"
      THEN [ret |-> -1, lines |-> ran, jobs |-> queued, handler_func |-> "undefined",
            returned |-> TRUE]
      ELSE IF aw.obj.state = "pending"
      THEN [ret |-> -1, lines |-> ran \o aw.lines, jobs |-> aw.jobs,
            handler_func |-> "undefined", returned |-> FALSE]
      ELSE IF aw.obj.state = "rejected"
      THEN [ret |-> -1, lines |-> ran \o aw.lines, jobs |-> aw.jobs,
            handler_func |-> "undefined", returned |-> TRUE]
      ELSE [ret |-> 0, lines |-> ran \o aw.lines, jobs |-> aw.jobs,
            handler_func |-> export, returned |-> TRUE]

\* (variant) load_bundle looking up the export handler before default
load_bundle_handler_first(b, cur_id) ==
  LET static_ok == /\ b.readable
                   /\ b.size <= MAX_BUNDLE_SIZE
                   /\ b.compiles
                   /\ b.resolves
                   /\ b.import_meta
      ran    == guest_lines(b.top_level.script, cur_id)
      queued == guest_jobs(b.top_level.script, 0, b.top_level.exc)
      aw     == js_std_await([state |-> b.top_level.how], queued, cur_id, 0)
      export == IF b.handler_fn THEN "handler"
                ELSE IF b.default_fn THEN "default" ELSE "undefined"
  IN  IF ~static_ok
      THEN [ret |-> -1, lines |-> << >>, jobs |-> << >>, handler_func |-> "undefined",
            returned |-> TRUE]
      ELSE IF b.top_level.how = "throw"
      THEN [ret |-> -1, lines |-> ran, jobs |-> queued, handler_func |-> "undefined",
            returned |-> TRUE]
      ELSE IF aw.obj.state = "pending"
      THEN [ret |-> -1, lines |-> ran \o aw.lines, jobs |-> aw.jobs,
            handler_func |-> "undefined", returned |-> FALSE]
      ELSE IF aw.obj.state = "rejected" \/ export = "undefined"
      THEN [ret |-> -1, lines |-> ran \o aw.lines, jobs |-> aw.jobs,
            handler_func |-> "undefined", returned |-> TRUE]
      ELSE [ret |-> 0, lines |-> ran \o aw.lines, jobs |-> aw.jobs,
            handler_func |-> export, returned |-> TRUE]

\* (variant) load_bundle rejecting a file of exactly MAX_BUNDLE_SIZE bytes
load_bundle_size_exclusive(b, cur_id) ==
  LET static_ok == /\ b.readable
                   /\ b.size < MAX_BUNDLE_SIZE
                   /\ b.compiles
                   /\ b.resolves
                   /\ b.import_meta
      ran    == guest_lines(b.top_level.script, cur_id)
      queued == guest_jobs(b.top_level.script, 0, b.top_level.exc)
      aw     == js_std_await([state |-> b.top_level.how], queued, cur_id, 0)
      export == IF b.default_fn THEN "default"
                ELSE IF b.handler_fn THEN "handler" ELSE "undefined"
  IN  IF ~static_ok
      THEN [ret |-> -1, lines |-> << >>, jobs |-> << >>, handler_func |-> "undefined",
            returned |-> TRUE]
      ELSE IF b.top_level.how = "throw"
      THEN [ret |-> -1, lines |-> ran, jobs |-> queued, handler_func |-> "undefined",
            returned |-> TRUE]
      ELSE IF aw.obj.state = "pending"
      THEN [ret |-> -1, lines |-> ran \o aw.lines, jobs |-> aw.jobs,
            handler_func |-> "undefined", returned |-> FALSE]
      ELSE IF aw.obj.state = "rejected" \/ export = "undefined"
      THEN [ret |-> -1, lines |-> ran \o aw.lines, jobs |-> aw.jobs,
            handler_func |-> "undefined", returned |-> TRUE]
      ELSE [ret |-> 0, lines |-> ran \o aw.lines, jobs |-> aw.jobs,
            handler_func |-> export, returned |-> TRUE]

\* load_bundle(path): ret is 0 or -1; lines is what the module's code wrote
load_bundle(b, cur_id) ==
  LET static_ok == /\ b.readable
                   /\ b.size <= MAX_BUNDLE_SIZE
                   /\ b.compiles
                   /\ b.resolves
                   /\ b.import_meta
      ran    == guest_lines(b.top_level.script, cur_id)
      queued == guest_jobs(b.top_level.script, 0, b.top_level.exc)
      aw     == js_std_await([state |-> b.top_level.how], queued, cur_id, 0)
      export == IF b.default_fn THEN "default"
                ELSE IF b.handler_fn THEN "handler" ELSE "undefined"
  IN  IF ~static_ok
      THEN [ret |-> -1, lines |-> << >>, jobs |-> << >>, handler_func |-> "undefined",
            returned |-> TRUE]
      ELSE IF b.top_level.how = "throw"
      THEN [ret |-> -1, lines |-> ran, jobs |-> queued, handler_func |-> "undefined",
            returned |-> TRUE]
      ELSE IF aw.obj.state = "pending"
      THEN [ret |-> -1, lines |-> ran \o aw.lines, jobs |-> aw.jobs,
            handler_func |-> "undefined", returned |-> FALSE]
      ELSE IF aw.obj.state = "rejected" \/ export = "undefined"
      THEN [ret |-> -1, lines |-> ran \o aw.lines, jobs |-> aw.jobs,
            handler_func |-> "undefined", returned |-> TRUE]
      ELSE [ret |-> 0, lines |-> ran \o aw.lines, jobs |-> aw.jobs,
            handler_func |-> export, returned |-> TRUE]

\* what execute_handler leaves behind: the lines written, the job queue, the
\* buffer current_invoke_id, whether it returned at all, whether the handler
\* was called, and the body property of the value extracted (if any)
\* (variant) execute_handler coming back although the promise it awaits is
\* still pending
Outcome_not_awaited(lines, queue, cur_id, returned, called, body) ==
  [lines |-> lines, jobs |-> queue, current_invoke_id |-> cur_id,
   returned |-> TRUE, called |-> called, body |-> body]

Outcome(lines, queue, cur_id, returned, called, body) ==
  [lines |-> lines, jobs |-> queue, current_invoke_id |-> cur_id,
   returned |-> returned, called |-> called, body |-> body]

\* (variant) execute_handler reporting a rejected promise without reading the
\* reason of the rejection
execute_handler_rejection_unread(invoke_id, p, beh, fn, old_id, queue, owner) ==
  IF fn = "undefined"
  THEN Outcome(<< send_error(invoke_id, T_handler_not_loaded, T_HANDLER_NOT_LOADED) >>,
               queue, old_id, TRUE, FALSE, JS_UNDEFINED)
  ELSE
  LET cur_id == set_current_invoke_id(invoke_id)
      req    == request_eval(p.method, p.path, p.headers_json, p.query_json,
                             p.body_base64)
  IN  IF req.exception # NULLPTR
      THEN Outcome(<< send_error(invoke_id, req.exception, T_REQUEST_CREATION_ERROR) >>,
                   queue, << >>, TRUE, FALSE, JS_UNDEFINED)
      ELSE
      LET ran    == guest_lines(beh.script, cur_id)
          queued == queue \o guest_jobs(beh.script, owner, beh.exc)
          val    == IF beh.echo THEN Value(<<200>>, EmptyHeaders, req.body) ELSE beh.val
          aw     == js_std_await([state |-> beh.how], queued, cur_id, owner)
      IN  IF beh.how = "throw"
          THEN Outcome(ran \o << send_error(invoke_id, beh.exc, T_HANDLER_ERROR) >>,
                       queued, << >>, TRUE, TRUE, JS_UNDEFINED)
          ELSE IF aw.obj.state = "pending"
          THEN Outcome(ran \o aw.lines, aw.jobs, cur_id, FALSE, TRUE, JS_UNDEFINED)
          ELSE IF aw.obj.state = "rejected"
          THEN Outcome(ran \o aw.lines
                         \o << send_error(invoke_id, T_unknown_error, T_UNKNOWN_ERROR) >>,
                       aw.jobs, << >>, TRUE, TRUE, JS_UNDEFINED)
          ELSE Outcome(ran \o aw.lines \o << response_of(invoke_id, val) >>,
                       aw.jobs, << >>, TRUE, TRUE, val.body)

execute_handler(invoke_id, p, beh, fn, old_id, queue, owner) ==
  IF fn = "undefined"
  THEN Outcome(<< send_error(invoke_id, T_handler_not_loaded, T_HANDLER_NOT_LOADED) >>,
               queue, old_id, TRUE, FALSE, JS_UNDEFINED)
  ELSE
  LET cur_id == set_current_invoke_id(invoke_id)
      req    == request_eval(p.method, p.path, p.headers_json, p.query_json,
                             p.body_base64)
  IN  IF req.exception # NULLPTR
      THEN Outcome(<< send_error(invoke_id, req.exception, T_REQUEST_CREATION_ERROR) >>,
                   queue, << >>, TRUE, FALSE, JS_UNDEFINED)
      ELSE
      LET ran    == guest_lines(beh.script, cur_id)
          queued == queue \o guest_jobs(beh.script, owner, beh.exc)
          val    == IF beh.echo THEN Value(<<200>>, EmptyHeaders, req.body) ELSE beh.val
          aw     == js_std_await([state |-> beh.how], queued, cur_id, owner)
      IN  IF beh.how = "throw"
          THEN Outcome(ran \o << send_error(invoke_id, beh.exc, T_HANDLER_ERROR) >>,
                       queued, << >>, TRUE, TRUE, JS_UNDEFINED)
          ELSE IF aw.obj.state = "pending"
          THEN Outcome(ran \o aw.lines, aw.jobs, cur_id, FALSE, TRUE, JS_UNDEFINED)
          ELSE IF aw.obj.state = "rejected"
          THEN Outcome(ran \o aw.lines
                         \o << send_error(invoke_id, beh.exc, T_HANDLER_ERROR) >>,
                       aw.jobs, << >>, TRUE, TRUE, JS_UNDEFINED)
          ELSE Outcome(ran \o aw.lines \o << response_of(invoke_id, val) >>,
                       aw.jobs, << >>, TRUE, TRUE, val.body)

-----------------------------------------------------------------------------
(* The Headers and Request shims of add_web_apis, over guest values: a     *)
(* value is a record whose field t names its type; an object's own         *)
(* enumerable properties are kept as a sequence of <<name, value>> pairs in *)
(* insertion order.                                                        *)

JsUndefined == [t |-> "undefined"]
JsNull == [t |-> "null"]
JsString(s) == [t |-> "string", s |-> s]
\* a plain object holding the given properties
JsObject(entries) == [t |-> "Object", entries |-> entries]
\* an instance of the class Headers: its one own property is _headers
HeadersObject(map) == [t |-> "Headers", _headers |-> map]
\* an instance of the class Request, and a plain object with the same
\* properties (a property that is not there reads as undefined)
RequestObject(url, method, headers, body) ==
  [t |-> "Request", url |-> url, method |-> method, headers |-> headers, body |-> body]
RequestInit(method, headers, body) ==
  [t |-> "RequestInit", url |-> JsUndefined, method |-> method, headers |-> headers,
   body |-> body]

T_object_Object == <<91, 111, 98, 106, 101, 99, 116, 32, 79, 98, 106, 101, 99, 116, 93>>
T__headers == <<95, 104, 101, 97, 100, 101, 114, 115>>            \* _headers

\* ToBoolean, as || and if apply it
truthy(v) == v.t \notin {"undefined", "null"} /\ (v.t = "string" => v.s # << >>)
\* a || b
Or(a, b) == IF truthy(a) THEN a ELSE b
\* String(v): a string is itself, an object is [object Object]
String(v) == IF v.t = "string" THEN v.s ELSE T_object_Object
toLowerCase(s) == [i \in DOMAIN s |-> IF s[i] >= 65 /\ s[i] <= 90 THEN s[i] + 32 ELSE s[i]]
\* Object.entries(v): the own enumerable properties (the getter headers of
\* the class Headers is on the prototype and is not among them)
Object_entries(v) ==
  IF v.t = "Object" THEN v.entries
  ELSE IF v.t = "Headers" THEN << <<T__headers, JsObject(v._headers)>> >>
  ELSE << >>
\* map[k] = v
set_property(map, k, v) ==
  IF \E i \in DOMAIN map : map[i][1] = k
  THEN [i \in DOMAIN map |-> IF map[i][1] = k THEN <<k, v>> ELSE map[i]]
  ELSE Append(map, <<k, v>>)

\* new Headers(init)
Headers(init) ==
  LET step(map, e) == set_property(map, toLowerCase(e[1]), JsString(String(e[2])))
  IN  IF truthy(init) /\ init.t # "string"
      THEN HeadersObject(FoldSeq(step, << >>, Object_entries(init)))
      ELSE HeadersObject(<< >>)

\* new Request(input, init)
Request(input, init) ==
  LET from_input == input.t # "string" /\ truthy(input) /\ truthy(input.url)
      url     == IF input.t = "string" THEN input
                 ELSE IF from_input THEN input.url ELSE JsString(<<47>>)
      method  == IF from_input THEN Or(input.method, JsString(T_GET)) ELSE JsUndefined
      headers == IF from_input THEN Or(input.headers, Headers(JsUndefined))
                 ELSE JsUndefined
      body    == IF from_input THEN Or(input.body, JsNull) ELSE JsUndefined
  IN  IF truthy(init)
      THEN RequestObject(url, Or(init.method, Or(method, JsString(T_GET))),
                         Headers(Or(init.headers, headers)),
                         Or(init.body, Or(body, JsNull)))
      ELSE RequestObject(url, Or(method, JsString(T_GET)),
                         Or(headers, Headers(JsUndefined)), Or(body, JsNull))

\* no call of the Request constructor is followed
NoCall == [input |-> JsUndefined, init |-> JsUndefined, request |-> JsUndefined]

-----------------------------------------------------------------------------
(* The state machine.                                                      *)

\* the state of the process when main is entered: static storage is zeroed
InitGlobals ==
  /\ pc = "main"
  /\ worker_id = << >>
  /\ caps = [allow_filesystem |-> FALSE, allow_network |-> FALSE,
             allow_child_process |-> FALSE, allow_eval |-> FALSE,
             max_memory |-> 0, max_fds |-> 0]
  /\ rt = "NULL"
  /\ globals = NoGlobals
  /\ stdout = << >>
  /\ exit_status = "running"
  /\ handler_func = "undefined"
  /\ current_invoke_id = << >>
  /\ jobs = << >>
  /\ nlines = 0
  /\ served = << >>
  /\ freed = << >>

Init ==
  /\ InitGlobals
  /\ shim = NoCall
  /\ env = DefaultEnv
  /\ rlimit = DefaultRlimit
  /\ bundle \in Bundles

\* main up to the creation of the engine: worker_id, BUNDLE_PATH,
\* setup_capabilities, enforce_resource_limits
main_init ==
  /\ pc = "main"
  /\ worker_id' = set_worker_id(env)
  /\ IF bundle.has_path
     THEN /\ caps' = setup_capabilities(env)
          /\ \E as_set \in IF caps'.max_memory > 0 THEN SetrlimitOutcomes ELSE {"ok"} :
               \E nofile_set \in IF caps'.max_fds > 0 THEN SetrlimitOutcomes ELSE {"ok"} :
                 rlimit' = enforce_resource_limits(caps', rlimit, as_set, nofile_set)
          /\ pc' = "new_runtime"
          /\ UNCHANGED exit_status
     ELSE /\ pc' = "exited"
          /\ exit_status' = "exit1"
          /\ UNCHANGED <<caps, rlimit>>
  /\ UNCHANGED <<env, rt, globals, stdout, handler_func, current_invoke_id, jobs,
                 bundle, nlines, served, freed,
                 shim>>

\* JS_NewRuntime, JS_NewContext, js_std_init_handlers, js_std_add_helpers
main_new_runtime ==
  /\ pc = "new_runtime"
  /\ rt' = "created"
  /\ globals' = new_context_globals
  /\ pc' = "shims"
  /\ UNCHANGED <<env, worker_id, caps, rlimit, stdout, exit_status, handler_func,
                 current_invoke_id, jobs, bundle, nlines, served, freed,
                 shim>>

\* add_base64_polyfills, add_web_apis, add_console_override
main_add_shims ==
  /\ pc = "shims"
  /\ globals' = add_console_override(add_web_apis(add_base64_polyfills(globals)))
  /\ pc' = "disable_eval"
  /\ UNCHANGED <<env, worker_id, caps, rlimit, rt, stdout, exit_status, handler_func,
                 current_invoke_id, jobs, bundle, nlines, served, freed,
                 shim>>

\* (variant) main leaving eval and Function in place whatever caps says
main_disable_eval_never ==
  /\ pc = "disable_eval"
  /\ pc' = "load_bundle"
  /\ UNCHANGED <<env, worker_id, caps, rlimit, rt, globals, stdout, exit_status,
                 handler_func, current_invoke_id, jobs, bundle, nlines, served, freed,
          shim>>

\* eval and Function are deleted from the global object unless caps.allow_eval
main_disable_eval ==
  /\ pc = "disable_eval"
  /\ globals' = IF ~caps.allow_eval THEN Delete(globals, {"eval", "Function"})
                ELSE globals
  /\ pc' = "load_bundle"
  /\ UNCHANGED <<env, worker_id, caps, rlimit, rt, stdout, exit_status, handler_func,
                 current_invoke_id, jobs, bundle, nlines, served, freed,
                 shim>>

\* (variant) main writing the ready record before it knows that load_bundle
\* succeeded
main_load_bundle_ready_first ==
  /\ pc = "load_bundle"
  /\ LET r == load_bundle(bundle, current_invoke_id)
     IN  /\ jobs' = r.jobs
         /\ handler_func' = r.handler_func
         /\ IF ~r.returned
            THEN /\ stdout' = stdout \o << send_ready(worker_id) >> \o r.lines
                 /\ pc' = "await"
                 /\ UNCHANGED <<exit_status, freed>>
            ELSE IF r.ret # 0
            THEN /\ stdout' = stdout \o << send_ready(worker_id) >> \o r.lines
                      \o << send_error(T_bundle_load, T_failed_to_load_bundle,
                                       T_BUNDLE_LOAD_ERROR) >>
                 /\ pc' = "exited"
                 /\ exit_status' = "exit1"
                 /\ freed' = <<"ctx", "rt">>
            ELSE /\ stdout' = stdout \o << send_ready(worker_id) >> \o r.lines
                 /\ pc' = "read"
                 /\ UNCHANGED <<exit_status, freed>>
  /\ UNCHANGED <<startup, current_invoke_id, bundle, nlines, served, shim>>

\* (variant) main going on to process_messages after a failed load
main_load_bundle_loop_after_failure ==
  /\ pc = "load_bundle"
  /\ LET r == load_bundle(bundle, current_invoke_id)
     IN  /\ jobs' = r.jobs
         /\ handler_func' = r.handler_func
         /\ IF ~r.returned
            THEN /\ stdout' = stdout \o r.lines
                 /\ pc' = "await"
                 /\ UNCHANGED <<exit_status, freed>>
            ELSE IF r.ret # 0
            THEN /\ stdout' = stdout \o r.lines
                      \o << send_error(T_bundle_load, T_failed_to_load_bundle,
                                       T_BUNDLE_LOAD_ERROR) >>
                 /\ pc' = "read"
                 /\ UNCHANGED <<exit_status, freed>>
            ELSE /\ stdout' = stdout \o r.lines \o << send_ready(worker_id) >>
                 /\ pc' = "read"
                 /\ UNCHANGED <<exit_status, freed>>
  /\ UNCHANGED <<startup, current_invoke_id, bundle, nlines, served, shim>>

\* main around load_bundle: the error record and return 1, or send_ready and
\* on to process_messages
main_load_bundle ==
  /\ pc = "load_bundle"
  /\ LET r == load_bundle(bundle, current_invoke_id)
     IN  /\ jobs' = r.jobs
         /\ handler_func' = r.handler_func
         /\ IF ~r.returned
            THEN /\ stdout' = stdout \o r.lines
                 /\ pc' = "await"
                 /\ UNCHANGED <<exit_status, freed>>
            ELSE IF r.ret # 0
            THEN /\ stdout' = stdout \o r.lines
                      \o << send_error(T_bundle_load, T_failed_to_load_bundle,
                                       T_BUNDLE_LOAD_ERROR) >>
                 /\ pc' = "exited"
                 /\ exit_status' = "exit1"
                 /\ freed' = <<"ctx", "rt">>
            ELSE /\ stdout' = stdout \o r.lines \o << send_ready(worker_id) >>
                 /\ pc' = "read"
                 /\ UNCHANGED <<exit_status, freed>>
  /\ UNCHANGED <<startup, current_invoke_id, bundle, nlines, served, shim>>

\* how often JS_FreeCString is called on each C string that process_messages
\* acquires with JS_ToCString for an invoke line, before it reads the next
\* line: type_str at line 937; invoke_id at line 932 and, when the line has a
\* payload, at line 913 too; the payload's strings at lines 914-918
Releases(has_payload) ==
  IF has_payload
  THEN [s \in {"type_str", "invoke_id", "method", "path", "headers_json",
               "query_json", "body_str"} |->
          IF s = "invoke_id" THEN 2 ELSE 1]
  ELSE [s \in {"type_str", "invoke_id"} |-> 1]

\* the history entry of a consumed invoke line: line is its number among the
\* lines read, length its length in bytes, start is the length of stdout when
\* the line was read, called whether the handler was called, returned
\* whether the dispatch came back, body the body the handler handed back;
\* how, val, exc and echo are what the handler did, released the releases
\* of the line's C strings, payload the C strings extracted from the line's
\* payload and omitted the properties the payload did not have
Served(l, beh, start, called, returned, body) ==
  [id |-> l.id, line |-> nlines + 1, length |-> line_length(l),
   has_payload |-> l.has_payload, released |-> Releases(l.has_payload),
   payload |-> l.payload, omitted |-> l.omitted,
   body_base64 |-> l.payload.body_base64,
   how |-> beh.how, val |-> beh.val, exc |-> beh.exc, echo |-> beh.echo,
   start |-> start, called |-> called, returned |-> returned, body |-> body]

NoBehaviour == Behaviour(<< >>, "none", NoValue, NULLPTR, FALSE)

\* invoke_id is freed at line 913 and again at line 932: the second free is
\* undefined behaviour, after which the process goes on or is killed
DoubleFreeOutcomes == {"continues", "killed"}

\* (variant) process_messages releasing the handler after an invocation that
\* ended in an error record
process_messages_releasing_handler(Lines) ==
  /\ pc = "read"
  /\ nlines < MaxLines
  /\ nlines' = nlines + 1
  /\ \E l \in Lines :
       IF l.kind # "invoke"
       THEN UNCHANGED <<pc, stdout, exit_status, current_invoke_id, jobs, served>>
       ELSE
       /\ \A k \in DOMAIN served : served[k].id # l.id
       /\ IF ~l.has_payload
          THEN /\ stdout' = Append(stdout,
                              send_error(JS_ToCString(l.id), T_missing_payload,
                                         T_INVALID_MESSAGE))
               /\ served' = Append(served,
                              Served(l, NoBehaviour, Len(stdout), FALSE, TRUE,
                                     JS_UNDEFINED))
               /\ UNCHANGED <<pc, exit_status, current_invoke_id, jobs>>
          ELSE \E beh \in Behaviours(l) :
                 \E r \in {execute_handler(JS_ToCString(l.id), l.payload, beh,
                                           handler_func, current_invoke_id, jobs,
                                           Len(served) + 1)} :
                     /\ stdout' = stdout \o r.lines
                     /\ jobs' = r.jobs
                     /\ current_invoke_id' = r.current_invoke_id
                     /\ served' = Append(served,
                                    Served(l, beh, Len(stdout), r.called, r.returned,
                                           r.body))
                     /\ IF ~r.returned
                        THEN pc' = "await" /\ UNCHANGED exit_status
                        ELSE \E free \in DoubleFreeOutcomes :
                               IF free = "killed"
                               THEN pc' = "exited" /\ exit_status' = "killed"
                               ELSE UNCHANGED <<pc, exit_status>>
  /\ handler_func' = IF \E i \in (Len(stdout) + 1)..Len(stdout') :
                               stdout'[i].type = T_error
                     THEN "undefined" ELSE handler_func
  /\ UNCHANGED <<startup, bundle, freed, shim>>

\* (variant) process_messages answering a line that does not parse with an
\* error record
process_messages_answering_malformed(Lines) ==
  /\ pc = "read"
  /\ nlines < MaxLines
  /\ nlines' = nlines + 1
  /\ \E l \in Lines :
       IF l.kind # "invoke"
       THEN /\ stdout' = IF l.kind = "malformed"
                          THEN Append(stdout, send_error(T_unknown, T_missing_payload,
                                                         T_INVALID_MESSAGE))
                          ELSE stdout
            /\ UNCHANGED <<pc, exit_status, current_invoke_id, jobs, served>>
       ELSE
       /\ \A k \in DOMAIN served : served[k].id # l.id
       /\ IF ~l.has_payload
          THEN /\ stdout' = Append(stdout,
                              send_error(JS_ToCString(l.id), T_missing_payload,
                                         T_INVALID_MESSAGE))
               /\ served' = Append(served,
                              Served(l, NoBehaviour, Len(stdout), FALSE, TRUE,
                                     JS_UNDEFINED))
               /\ UNCHANGED <<pc, exit_status, current_invoke_id, jobs>>
          ELSE \E beh \in Behaviours(l) :
                 \E r \in {execute_handler(JS_ToCString(l.id), l.payload, beh,
                                           handler_func, current_invoke_id, jobs,
                                           Len(served) + 1)} :
                     /\ stdout' = stdout \o r.lines
                     /\ jobs' = r.jobs
                     /\ current_invoke_id' = r.current_invoke_id
                     /\ served' = Append(served,
                                    Served(l, beh, Len(stdout), r.called, r.returned,
                                           r.body))
                     /\ IF ~r.returned
                        THEN pc' = "await" /\ UNCHANGED exit_status
                        ELSE \E free \in DoubleFreeOutcomes :
                               IF free = "killed"
                               THEN pc' = "exited" /\ exit_status' = "killed"
                               ELSE UNCHANGED <<pc, exit_status>>
  /\ UNCHANGED <<startup, handler_func, bundle, freed, shim>>

\* (variant) process_messages whose dispatch leaves current_invoke_id as it
\* was set for the invocation
process_messages_id_kept(Lines) ==
  /\ pc = "read"
  /\ nlines < MaxLines
  /\ nlines' = nlines + 1
  /\ \E l \in Lines :
       IF l.kind # "invoke"
       THEN UNCHANGED <<pc, stdout, exit_status, current_invoke_id, jobs, served>>
       ELSE
       /\ \A k \in DOMAIN served : served[k].id # l.id
       /\ IF ~l.has_payload
          THEN /\ stdout' = Append(stdout,
                              send_error(JS_ToCString(l.id), T_missing_payload,
                                         T_INVALID_MESSAGE))
               /\ served' = Append(served,
                              Served(l, NoBehaviour, Len(stdout), FALSE, TRUE,
                                     JS_UNDEFINED))
               /\ UNCHANGED <<pc, exit_status, current_invoke_id, jobs>>
          ELSE \E beh \in Behaviours(l) :
                 \E r \in {execute_handler(JS_ToCString(l.id), l.payload, beh,
                                           handler_func, current_invoke_id, jobs,
                                           Len(served) + 1)} :
                     /\ stdout' = stdout \o r.lines
                     /\ jobs' = r.jobs
                     /\ current_invoke_id' = set_current_invoke_id(JS_ToCString(l.id))
                     /\ served' = Append(served,
                                    Served(l, beh, Len(stdout), r.called, r.returned,
                                           r.body))
                     /\ IF ~r.returned
                        THEN pc' = "await" /\ UNCHANGED exit_status
                        ELSE \E free \in DoubleFreeOutcomes :
                               IF free = "killed"
                               THEN pc' = "exited" /\ exit_status' = "killed"
                               ELSE UNCHANGED <<pc, exit_status>>
  /\ UNCHANGED <<startup, handler_func, bundle, freed, shim>>

\* one turn of the loop of process_messages: getline, parse, dispatch
process_messages(Lines) ==
  /\ pc = "read"
  /\ nlines < MaxLines
  /\ nlines' = nlines + 1
  /\ \E l \in Lines :
       IF l.kind # "invoke"
       THEN UNCHANGED <<pc, stdout, exit_status, current_invoke_id, jobs, served>>
       ELSE
       /\ \A k \in DOMAIN served : served[k].id # l.id
       /\ IF ~l.has_payload
          THEN /\ stdout' = Append(stdout,
                              send_error(JS_ToCString(l.id), T_missing_payload,
                                         T_INVALID_MESSAGE))
               /\ served' = Append(served,
                              Served(l, NoBehaviour, Len(stdout), FALSE, TRUE,
                                     JS_UNDEFINED))
               /\ UNCHANGED <<pc, exit_status, current_invoke_id, jobs>>
          ELSE \E beh \in Behaviours(l) :
                 \E r \in {execute_handler(JS_ToCString(l.id), l.payload, beh,
                                           handler_func, current_invoke_id, jobs,
                                           Len(served) + 1)} :
                     /\ stdout' = stdout \o r.lines
                     /\ jobs' = r.jobs
                     /\ current_invoke_id' = r.current_invoke_id
                     /\ served' = Append(served,
                                    Served(l, beh, Len(stdout), r.called, r.returned,
                                           r.body))
                     /\ IF ~r.returned
                        THEN pc' = "await" /\ UNCHANGED exit_status
                        ELSE \E free \in DoubleFreeOutcomes :
                               IF free = "killed"
                               THEN pc' = "exited" /\ exit_status' = "killed"
                               ELSE UNCHANGED <<pc, exit_status>>
  /\ UNCHANGED <<startup, handler_func, bundle, freed, shim>>

\* the cleanup of main after process_messages: the handler if one is held,
\* then the context, then the runtime
cleanup(fn) ==
  (IF fn # "undefined" THEN <<"handler_func">> ELSE << >>) \o <<"ctx", "rt">>

\* getline returns -1: process_messages returns, main cleans up, return 0
stdin_eof ==
  /\ pc = "read"
  /\ pc' = "exited"
  /\ exit_status' = "exit0"
  /\ freed' = cleanup(handler_func)
  /\ UNCHANGED <<startup, stdout, handler_func, current_invoke_id, jobs, bundle,
                 nlines, served, shim>>

Next ==
  \/ main_init
  \/ main_new_runtime
  \/ main_add_shims
  \/ main_disable_eval
  \/ main_load_bundle
  \/ process_messages(StdinLines)
  \/ stdin_eof

Spec == Init /\ [][Next]_vars

-----------------------------------------------------------------------------
(* Reference base64 (RFC 4648, standard alphabet, '=' padding), written    *)
(* independently of the worker's encoder and of the guest's atob.          *)

Base64Char(v) ==
  IF v < 26 THEN 65 + v
  ELSE IF v < 52 THEN 97 + (v - 26)
  ELSE IF v < 62 THEN 48 + (v - 52)
  ELSE IF v = 62 THEN 43 ELSE 47

Base64Value(c) ==
  IF c >= 65 /\ c <= 90 THEN c - 65
  ELSE IF c >= 97 /\ c <= 122 THEN c - 71
  ELSE IF c >= 48 /\ c <= 57 THEN c + 4
  ELSE IF c = 43 THEN 62
  ELSE IF c = 47 THEN 63 ELSE 0

Base64Encode(b) ==
  LET n == Len(b)
      at(i) == IF i <= n THEN b[i] ELSE 0
      x(g) == at(3 * g + 1) * 65536 + at(3 * g + 2) * 256 + at(3 * g + 3)
      char(p) ==
        LET g == (p - 1) \div 4
            k == (p - 1) % 4
        IN  IF k = 0 THEN Base64Char(x(g) \div 262144)
            ELSE IF k = 1 THEN Base64Char((x(g) \div 4096) % 64)
            ELSE IF k = 2 THEN IF 3 * g + 2 <= n
                               THEN Base64Char((x(g) \div 64) % 64) ELSE 61
            ELSE IF 3 * g + 3 <= n THEN Base64Char(x(g) % 64) ELSE 61
  IN  [p \in 1..(4 * ((n + 2) \div 3)) |-> char(p)]

\* NULLPTR when s is no base64 text
Base64Decode(s) ==
  LET len == Len(s)
      pad == IF len >= 1 /\ s[len] = 61
             THEN IF len >= 2 /\ s[len - 1] = 61 THEN 2 ELSE 1
             ELSE 0
      x(g) == Base64Value(s[4 * g + 1]) * 262144 + Base64Value(s[4 * g + 2]) * 4096
              + Base64Value(s[4 * g + 3]) * 64 + Base64Value(s[4 * g + 4])
      byte(i) ==
        LET g == (i - 1) \div 3
            k == (i - 1) % 3
        IN  IF k = 0 THEN x(g) \div 65536
            ELSE IF k = 1 THEN (x(g) \div 256) % 256
            ELSE x(g) % 256
  IN  IF len % 4 # 0 THEN NULLPTR
      ELSE [i \in 1..(3 * (len \div 4) - pad) |-> byte(i)]

-----------------------------------------------------------------------------
(* The body round trip: the host sends base64(b), the handler echoes the   *)
(* request body or hands back a long body.                                 *)

\* the byte strings b the host sends
RequestBodies ==
  { << >>, <<65>>, <<65, 66>>, <<65, 66, 67>>, <<65, 66, 67, 68>>,
    <<0>>, <<104, 0, 105>>, <<128, 65>>, <<255>> }

BodyLines ==
  { Line("invoke", id, TRUE,
         Payload(T_GET, T_hi, T_empty_object, T_empty_object, Base64Encode(b))) :
      id \in BodyIds, b \in RequestBodies }

InitBody == Init /\ bundle = GoodBundle

NextBody ==
  \/ main_init
  \/ main_new_runtime
  \/ main_add_shims
  \/ main_disable_eval
  \/ main_load_bundle
  \/ process_messages(BodyLines)
  \/ stdin_eof

SpecBody == InitBody /\ [][NextBody]_vars

-----------------------------------------------------------------------------
(* Startup under every environment: the bundles that differ in their size, *)
(* in whether they compile and in what they export, and two stdin lines.   *)

StartBundles ==
  { GoodBundle,
    [GoodBundle EXCEPT !.handler_fn = TRUE],
    [GoodBundle EXCEPT !.default_fn = FALSE, !.handler_fn = TRUE],
    [GoodBundle EXCEPT !.default_fn = FALSE],
    [GoodBundle EXCEPT !.size = MAX_BUNDLE_SIZE],
    [GoodBundle EXCEPT !.size = MAX_BUNDLE_SIZE + 1,
                       !.top_level.script = <<Console(T_info, T_ok)>>],
    [GoodBundle EXCEPT !.size = MAX_BUNDLE_SIZE, !.compiles = FALSE],
    [GoodBundle EXCEPT !.top_level.script = <<Console(T_info, T_ok)>>],
    [GoodBundle EXCEPT !.top_level.script =
       << ConsoleMethod("log", T_ok), ConsoleMethod("info", T_ok),
          ConsoleMethod("warn", T_ok), ConsoleMethod("error", T_ok),
          ConsoleMethod("debug", T_ok) >>],
    [GoodBundle EXCEPT !.top_level.script = <<Console(T_fatal, T_ok)>>],
    [GoodBundle EXCEPT !.has_path = FALSE] }

StartLines ==
  { Line("empty", << >>, FALSE, NoPayload),
    Line("invoke", ID_QUOTE, TRUE,
         Payload(T_GET, T_hi, T_empty_object, T_empty_object, << >>)) }

InitStart ==
  /\ InitGlobals
  /\ shim = NoCall
  /\ env \in Envs
  /\ rlimit = DefaultRlimit
  /\ bundle \in StartBundles

NextStart ==
  \/ main_init
  \/ main_new_runtime
  \/ main_add_shims
  \/ main_disable_eval
  \/ main_load_bundle
  \/ process_messages(StartLines)
  \/ stdin_eof

SpecStart == InitStart /\ [][NextStart]_vars

-----------------------------------------------------------------------------
(* Long stdin lines: an invoke padded with blanks to exactly MAX_LINE_LENGTH *)
(* bytes, another padded to one byte more, and lines of ordinary length.     *)

T_long == <<108, 111, 110, 103>>         \* the id long
T_full == <<102, 117, 108, 108>>         \* the id full

OkLine(id) ==
  Line("invoke", id, TRUE, Payload(T_GET, T_hi, T_empty_object, T_empty_object, << >>))

LongLines ==
  { Padded(OkLine(T_full), MAX_LINE_LENGTH - line_length(OkLine(T_full))),
    Padded(OkLine(T_long), MAX_LINE_LENGTH + 1 - line_length(OkLine(T_long))),
    Padded(Line("malformed", << >>, FALSE, NoPayload), MAX_LINE_LENGTH),
    OkLine(ID_QUOTE),
    Line("empty", << >>, FALSE, NoPayload) }

InitLong == Init /\ bundle = GoodBundle

NextLong ==
  \/ main_init
  \/ main_new_runtime
  \/ main_add_shims
  \/ main_disable_eval
  \/ main_load_bundle
  \/ process_messages(LongLines)
  \/ stdin_eof

SpecLong == InitLong /\ [][NextLong]_vars

-----------------------------------------------------------------------------
(* Reading stdout as the host does.  A record is a line written by         *)
(* send_message; a line written by print is raw guest output.              *)

IsRecord(l) == l.via = "send_message"
IsType(l, t) == IsRecord(l) /\ l.type = t
IsTerminator(l) == IsRecord(l) /\ l.type \in {T_response, T_error}

\* a record that belongs to an invocation: a response, a log not tagged
\* "bundle", an error not tagged "bundle-load"
IsInvocationRecord(l) ==
  \/ IsType(l, T_response)
  \/ IsType(l, T_log) /\ l.id # T_bundle
  \/ IsType(l, T_error) /\ l.id # T_bundle_load

StartsWith(s, prefix) ==
  Len(s) >= Len(prefix) /\ SubSeq(s, 1, Len(prefix)) = prefix
EndsWith(s, suffix) ==
  Len(s) >= Len(suffix) /\ SubSeq(s, Len(s) - Len(suffix) + 1, Len(s)) = suffix

T_id_key == <<123, 34, 105, 100, 34, 58, 34>>                      \* {"id":"

\* the id a JSON reader finds in a line: the bytes after {"id":" up to the
\* first quote or backslash
WireId(l) ==
  LET b == LineBytes(l)
      Q == {i \in (Len(T_id_key) + 1)..Len(b) : b[i] \in {34, 92}}
  IN  IF Q = {} THEN NULLPTR
      ELSE SubSeq(b, Len(T_id_key) + 1, (CHOOSE i \in Q : \A j \in Q : i <= j) - 1)

\* one step of a JSON reader over objects whose values are strings, integers
\* and objects (the only values the writers emit); \u escapes are accepted
\* without looking at their digits
JsonStep(st, c) ==
  LET m == st.mode
      d == st.depth
      to(mode) == [mode |-> mode, depth |-> d]
      fail == to("fail")
      close == IF d = 1 THEN [mode |-> "done", depth |-> 0]
               ELSE IF d > 1 THEN [mode |-> "after", depth |-> d - 1]
               ELSE fail
      escapes == {34, 92, 47, 98, 102, 110, 114, 116, 117}
  IN  CASE m = "value" ->
             IF c = 123 THEN [mode |-> "first", depth |-> d + 1]
             ELSE IF c = 34 THEN to("str")
             ELSE IF c = 45 \/ (c >= 48 /\ c <= 57) THEN to("num")
             ELSE fail
        [] m = "first" -> IF c = 34 THEN to("key") ELSE IF c = 125 THEN close ELSE fail
        [] m = "next" -> IF c = 34 THEN to("key") ELSE fail
        [] m = "key" -> IF c = 34 THEN to("colon")
                        ELSE IF c = 92 THEN to("key_esc")
                        ELSE IF c < 32 THEN fail ELSE st
        [] m = "key_esc" -> IF c \in escapes THEN to("key") ELSE fail
        [] m = "colon" -> IF c = 58 THEN to("value") ELSE fail
        [] m = "str" -> IF c = 34 THEN to("after")
                        ELSE IF c = 92 THEN to("str_esc")
                        ELSE IF c < 32 THEN fail ELSE st
        [] m = "str_esc" -> IF c \in escapes THEN to("str") ELSE fail
        [] m = "num" -> IF c >= 48 /\ c <= 57 THEN st
                        ELSE IF c = 44 THEN to("next")
                        ELSE IF c = 125 THEN close ELSE fail
        [] m = "after" -> IF c = 44 THEN to("next") ELSE IF c = 125 THEN close ELSE fail
        [] OTHER -> fail

WellFormedJson(bytes) ==
  FoldSeq(JsonStep, [mode |-> "value", depth |-> 0], bytes).mode = "done"

\* the lines of stdout written while the k-th consumed invoke was served
Window(k) ==
  (served[k].start + 1) ..
    (IF k < Len(served) THEN served[k + 1].start ELSE Len(stdout))

\* the indexes of the terminating records written for the k-th invoke
Terms(k) ==
  {i \in DOMAIN stdout :
     IsTerminator(stdout[i]) /\ stdout[i].id = JS_ToCString(served[k].id)}

\* the ways of failing that the loader knows, told from the bundle alone
LoadFails(b) ==
  \/ ~b.readable
  \/ b.size > MAX_BUNDLE_SIZE
  \/ ~b.compiles
  \/ ~b.resolves
  \/ ~b.import_meta
  \/ b.top_level.how \in {"throw", "rejected"}
  \/ b.top_level.how = "pending"
       /\ \E i \in DOMAIN b.top_level.script : b.top_level.script[i] = Enqueue("reject")
  \/ ~b.default_fn /\ ~b.handler_fn

-----------------------------------------------------------------------------
(* The claims.                                                             *)

\* C1: once the dispatch of an invoke line has come back, stdout holds exactly
\* one terminating record (response or error) whose id, as the host reads it
\* from the line, is the id of that invoke.
C1_OneTerminatorPerInvoke ==
  pc \in {"read", "exited"} =>
    \A k \in DOMAIN served :
      Cardinality({i \in DOMAIN stdout :
                     IsTerminator(stdout[i]) /\ WireId(stdout[i]) = served[k].id}) = 1

\* C2: every record on stdout is one complete JSON object: no unescaped quote,
\* backslash or newline, no value cut short.
C2_EveryRecordIsJson ==
  \A i \in DOMAIN stdout :
    IsRecord(stdout[i]) => WellFormedJson(LineBytes(stdout[i]))

\* C3: every log record tagged X is written before the terminating record of
\* X, and the terminating record of X is written before any record that
\* belongs to an invoke received after X (a record written while that invoke
\* is served, or tagged with its id).
C3_LogsBeforeTerminator ==
  \A k \in DOMAIN served : \A t \in Terms(k) :
    /\ \A i \in DOMAIN stdout :
         (IsType(stdout[i], T_log) /\ stdout[i].id = JS_ToCString(served[k].id))
           => i < t
    /\ \A m \in (k + 1)..Len(served) : \A i \in DOMAIN stdout :
         (IsRecord(stdout[i])
            /\ (i \in Window(m) \/ stdout[i].id = JS_ToCString(served[m].id)))
           => t < i

\* C4: the ready record is written at most once, exactly once when loading
\* succeeded and never when it did not, and no invocation record (response,
\* invocation log, invocation error) is written before it.
C4_ReadyOnceAndFirst ==
  LET R == {i \in DOMAIN stdout : IsType(stdout[i], T_ready)}
  IN  /\ Cardinality(R) <= 1
      /\ pc \in {"read", "await", "exited"} =>
           (Cardinality(R) = 1 <=> (bundle.has_path /\ ~LoadFails(bundle)))
      /\ \A i \in DOMAIN stdout :
           IsInvocationRecord(stdout[i]) => \E j \in R : j < i

\* (witness of C4) ready has been written and a response and an invocation
\* log follow it
C4_Witness ==
  \E i, j, n \in DOMAIN stdout :
    /\ IsType(stdout[i], T_ready)
    /\ i < j /\ IsType(stdout[j], T_log) /\ stdout[j].id # T_bundle
    /\ j < n /\ IsType(stdout[n], T_response)

\* C5: every line on stdout is a record: it starts as send_message starts a
\* line.
C5_OnlyRecordsOnStdout ==
  \A i \in DOMAIN stdout : StartsWith(LineBytes(stdout[i]), T_id_key)

\* C6: when the handler is called for an invoke line, the terminating record
\* of every earlier invoke line is already on stdout; and the terminating
\* records stand on stdout in the order of their invoke lines.
C6_OneAtATimeInOrder ==
  \A m \in DOMAIN served : \A k \in 1..(m - 1) :
    /\ served[m].called => \E t \in Terms(k) : t <= served[m].start
    /\ \A t \in Terms(k) : \A u \in Terms(m) : t < u

\* (witness of C6) two invokes whose handler was called, both terminated
C6_Witness ==
  /\ Len(served) >= 2
  /\ served[1].called /\ served[2].called
  /\ Terms(1) # {} /\ Terms(2) # {}

\* C7: when the worker is about to read a line after an invocation whose
\* handler returned a pending promise, the job queue is empty.
C7_QueueDrainedBeforeNextRead ==
  (pc = "read" /\ served # << >> /\ served[Len(served)].how = "pending")
    => jobs = << >>

\* C8: the response to an echoed request carries a body that base64-decodes
\* to the bytes the host encoded.
C8_Base64RoundTrip ==
  \A k \in DOMAIN served :
    (served[k].echo /\ served[k].returned) =>
      \E i \in Window(k) :
        /\ IsType(stdout[i], T_response)
        /\ \E body \in {SubSeq(stdout[i].payload,
                               Len(send_response(<< >>, 200, T_empty_object, << >>).payload) - 1,
                               Len(stdout[i].payload) - 2)} :
             Base64Decode(body) = Base64Decode(served[k].body_base64)

\* C9: a response for a handler that handed back a string body (here: of
\* bytes 1..127) carries the base64 of the whole body.
C9_BodyNeverTruncated ==
  \A k \in DOMAIN served : \A i \in Window(k) :
    ( /\ IsType(stdout[i], T_response)
      /\ served[k].body \notin {JS_UNDEFINED, JS_NULL}
      /\ \A n \in DOMAIN served[k].body :
           served[k].body[n] >= 1 /\ served[k].body[n] <= 127 )
    => EndsWith(stdout[i].payload,
                <<34>> \o Base64Encode(served[k].body) \o <<34, 125>>)

\* C10: when the bundle fails to load, the worker ends with exit status 1
\* having written exactly one error record, with id "bundle-load" and code
\* "BUNDLE_LOAD_ERROR", no ready record, and having read no stdin line.
C10_LoadFailure ==
  (bundle.has_path /\ LoadFails(bundle) /\ pc \in {"read", "await", "exited"}) =>
    /\ pc = "exited"
    /\ exit_status = "exit1"
    /\ nlines = 0
    /\ \A i \in DOMAIN stdout : ~IsType(stdout[i], T_ready)
    /\ Cardinality({i \in DOMAIN stdout : IsType(stdout[i], T_error)}) = 1
    /\ \E i \in DOMAIN stdout :
         /\ IsType(stdout[i], T_error)
         /\ WireId(stdout[i]) = T_bundle_load
         /\ EndsWith(stdout[i].payload,
                     <<34, 99, 111, 100, 101, 34, 58, 34>>         \* "code":"
                     \o <<66, 85, 78, 68, 76, 69, 95, 76, 79, 65, 68, 95,
                          69, 82, 82, 79, 82>>                     \* BUNDLE_LOAD_ERROR
                     \o <<34, 125>>)

\* (witness of C10) a bundle whose top-level code wrote a log and then threw:
\* the worker has exited after the error record
C10_Witness ==
  /\ bundle.has_path /\ LoadFails(bundle)
  /\ bundle.top_level.how = "throw"
  /\ pc = "exited"
  /\ \E i \in DOMAIN stdout : IsType(stdout[i], T_error)

\* the message the reader of the records is told to expect when the module
\* exports no handler
T_no_handler_found ==
  <<78, 111, 32, 104, 97, 110, 100, 108, 101, 114, 32, 102, 117, 110, 99, 116,
    105, 111, 110, 32, 102, 111, 117, 110, 100>>       \* No handler function found

\* the bundle fails at the compile step / at handler resolution and nowhere else
FailsToCompile(b) == b.readable /\ b.size <= MAX_BUNDLE_SIZE /\ ~b.compiles
ExportsNoHandler(b) ==
  /\ b.readable /\ b.size <= MAX_BUNDLE_SIZE /\ b.compiles /\ b.resolves
  /\ b.import_meta /\ b.top_level.how = "fulfilled"
  /\ ~b.default_fn /\ ~b.handler_fn

\* C11: the bundle-load error record names the cause: the guest exception
\* message when the bundle does not compile, "No handler function found" when
\* the module exports neither a callable default nor a callable handler.
C11_LoadErrorNamesCause ==
  \A i \in DOMAIN stdout :
    (IsType(stdout[i], T_error) /\ stdout[i].id = T_bundle_load) =>
      /\ FailsToCompile(bundle) =>
           stdout[i] = send_error(T_bundle_load, compile_exception(bundle),
                                  T_BUNDLE_LOAD_ERROR)
      /\ ExportsNoHandler(bundle) =>
           stdout[i] = send_error(T_bundle_load, T_no_handler_found,
                                  T_BUNDLE_LOAD_ERROR)

\* the module's code runs to its end: every step of load_bundle before the
\* look-up of the exports succeeds
ModuleExecutes(b) ==
  /\ b.has_path /\ b.readable /\ b.size <= MAX_BUNDLE_SIZE
  /\ b.compiles /\ b.resolves /\ b.import_meta
  /\ \/ b.top_level.how = "fulfilled"
     \/ /\ b.top_level.how = "pending"
        /\ \E i \in DOMAIN b.top_level.script : b.top_level.script[i] = Enqueue("fulfil")

\* C12: once the module has executed, the retained handler is the default
\* export when that is callable (whether or not a callable handler export
\* exists), else the export handler when that is callable; else the load has
\* failed and no handler is retained.
C12_HandlerResolution ==
  (pc \in {"read", "await", "exited"} /\ ModuleExecutes(bundle)) =>
    /\ bundle.default_fn => handler_func = "default"
    /\ (~bundle.default_fn /\ bundle.handler_fn) => handler_func = "handler"
    /\ (~bundle.default_fn /\ ~bundle.handler_fn) =>
         /\ handler_func = "undefined"
         /\ exit_status = "exit1"
         /\ \E i \in DOMAIN stdout : stdout[i].id = T_bundle_load
    /\ (bundle.default_fn \/ bundle.handler_fn) =>
         \E i \in DOMAIN stdout : IsType(stdout[i], T_ready)

\* (witness of C12) a module exporting both a callable default and a callable
\* handler has been loaded and has served an invoke
C12_Witness ==
  /\ bundle.default_fn /\ bundle.handler_fn
  /\ handler_func = "default"
  /\ \E k \in DOMAIN served : served[k].called

\* every property a shim defines is on the global object, put there by that
\* shim
ShimsInstalled ==
  /\ \A n \in {"btoa", "atob"} :
       n \in DOMAIN globals /\ globals[n] = "add_base64_polyfills"
  /\ \A n \in {"URL", "URLSearchParams", "Headers", "Response", "Request"} :
       n \in DOMAIN globals /\ globals[n] = "add_web_apis"
  /\ "console" \in DOMAIN globals /\ globals["console"] = "add_console_override"

\* C13: the order of startup: the engine exists only after the resource
\* limits were applied; eval or Function is missing from the global object
\* only after every shim was installed; with ALLOW_EVAL unset both are gone
\* from the moment the bundle's code may run; the ready record is on stdout
\* only when a handler is retained.
C13_StartupOrder ==
  /\ rt # "NULL" => rlimit.enforced
  /\ (rt # "NULL" /\ {"eval", "Function"} \ DOMAIN globals # {}) => ShimsInstalled
  /\ ( /\ "ALLOW_EVAL" \notin env.set
       /\ rt # "NULL"
       /\ pc \in {"load_bundle", "read", "await", "exited"} )
       => {"eval", "Function"} \cap DOMAIN globals = {}
  /\ (\E i \in DOMAIN stdout : IsType(stdout[i], T_ready)) => handler_func # "undefined"

\* (witness of C13) a worker started without ALLOW_EVAL and with MAX_FDS set
\* has written ready: eval is gone, the shims are there, the limit is lowered
C13_Witness ==
  /\ "ALLOW_EVAL" \notin env.set
  /\ caps.max_fds > 0
  /\ rlimit.nofile.rlim_cur = caps.max_fds
  /\ "eval" \notin DOMAIN globals
  /\ ShimsInstalled
  /\ pc = "read"
  /\ \E i \in DOMAIN stdout : IsType(stdout[i], T_ready)

\* the payload of an error record ends with this code
HasCode(l, code) ==
  EndsWith(l.payload, <<34, 99, 111, 100, 101, 34, 58, 34>> \o code \o <<34, 125>>)

\* the invoke served[k] reached execute_handler with a handler loaded and the
\* building of its Request threw
RequestCreationFailed(k) ==
  served[k].has_payload /\ ~served[k].called /\ handler_func # "undefined"

\* the handler of served[k] threw, or handed back a rejected promise
HandlerFailed(k) == served[k].called /\ served[k].how \in {"throw", "rejected"}

\* the records written while served[k] was dispatched are logs and one error
\* of the given code: no response
OnlyErrorWithCode(k, code) ==
  /\ \A i \in Window(k) : ~IsType(stdout[i], T_response)
  /\ Cardinality({i \in Window(k) : IsType(stdout[i], T_error)}) = 1
  /\ \A i \in Window(k) : IsType(stdout[i], T_error) => HasCode(stdout[i], code)

\* C14: an invoke whose Request cannot be built ends in one error record of
\* code REQUEST_CREATION_ERROR without the handler being called; an invoke
\* whose handler throws or rejects ends in one error record of code
\* HANDLER_ERROR; neither writes a response; and after either the worker is
\* reading stdin again (or has ended normally at the end of stdin).
C14_FailureCodes ==
  \A k \in DOMAIN served :
    /\ RequestCreationFailed(k) => OnlyErrorWithCode(k, T_REQUEST_CREATION_ERROR)
    /\ HandlerFailed(k) => OnlyErrorWithCode(k, T_HANDLER_ERROR)
    /\ (RequestCreationFailed(k) \/ HandlerFailed(k)) =>
         (pc = "read" \/ exit_status = "exit0" \/ k < Len(served))

\* C15: handler_func is assigned only by the bundle load, and only once; while
\* stdin is read a handler is retained and no line changes it; and an invoke
\* with a payload is dispatched to it (the handler is called, or the Request
\* could not be built) whatever the invocations before it ended in.
C15_HandlerRetained ==
  [][ /\ handler_func' # handler_func =>
           (pc = "load_bundle" /\ handler_func = "undefined")
      /\ pc = "read" => (handler_func # "undefined" /\ handler_func' = handler_func)
      /\ (Len(served') > Len(served) /\ served'[Len(served')].has_payload) =>
           \/ served'[Len(served')].called
           \/ \E i \in (Len(stdout) + 1)..Len(stdout') :
                IsType(stdout'[i], T_error)
                  /\ HasCode(stdout'[i], T_REQUEST_CREATION_ERROR) ]_vars

\* (witness of C15) an invoke whose handler threw, followed by an invoke whose
\* handler was called and answered, the handler being the one loaded
C15_Witness ==
  /\ Len(served) = 2
  /\ served[1].called /\ served[1].how = "throw"
  /\ served[2].called /\ served[2].how = "value"
  /\ \E i \in Window(2) : IsType(stdout[i], T_response)
  /\ handler_func = "default"

\* C16: every log record written while the handler of invocation X executes
\* carries the full id of X, whatever the length of that id; a log record
\* written while no invocation executes carries the id "bundle".  (The lines
\* of stdout are kept in the order in which they were written.)
C16_LogsCarryFullId ==
  /\ \A k \in DOMAIN served : \A i \in Window(k) :
       IsType(stdout[i], T_log) => stdout[i].id = JS_ToCString(served[k].id)
  /\ \A i \in DOMAIN stdout :
       (IsType(stdout[i], T_log) /\ \A k \in DOMAIN served : i \notin Window(k))
         => stdout[i].id = T_bundle

\* a log record written while no invoke line was being served
LogOutsideInvocation(i) ==
  IsType(stdout[i], T_log) /\ \A k \in DOMAIN served : i \notin Window(k)

C19_LineLengthLimit ==
  \A k \in DOMAIN served :
    /\ (served[k].length <= MAX_LINE_LENGTH /\ served[k].returned) => Terms(k) # {}
    /\ served[k].length > MAX_LINE_LENGTH =>
         (~served[k].called /\ \A i \in Window(k) : ~IsRecord(stdout[i]))

\* but for its size, nothing keeps the bundle from loading
LoadsButForSize(b) ==
  /\ b.has_path /\ b.readable /\ b.compiles /\ b.resolves /\ b.import_meta
  /\ b.top_level.how = "fulfilled"
  /\ b.default_fn \/ b.handler_fn

\* C20: a bundle of at most MAX_BUNDLE_SIZE bytes (10 MiB exactly included)
\* passes the size check: if nothing else is wrong with it, it is compiled,
\* run and its handler retained.  A bundle of more bytes is rejected before
\* any of its code runs: stdout holds the BUNDLE_LOAD_ERROR record and nothing
\* else, no handler is retained, and the exit status is 1.
C20_BundleSizeLimit ==
  (pc \in {"read", "await", "exited"} /\ LoadsButForSize(bundle)) =>
    /\ bundle.size <= MAX_BUNDLE_SIZE =>
         /\ handler_func # "undefined"
         /\ \E i \in DOMAIN stdout : IsType(stdout[i], T_ready)
    /\ bundle.size > MAX_BUNDLE_SIZE =>
         /\ stdout = << send_error(T_bundle_load, T_failed_to_load_bundle,
                                   T_BUNDLE_LOAD_ERROR) >>
         /\ HasCode(stdout[1], <<66, 85, 78, 68, 76, 69, 95, 76, 79, 65, 68, 95,
                                 69, 82, 82, 79, 82>>)
         /\ handler_func = "undefined"
         /\ pc = "exited"
         /\ exit_status = "exit1"

\* (witness of C20) a bundle of exactly 10 MiB has been loaded and the worker
\* is reading stdin
C20_Witness ==
  /\ bundle.size = 10 * 1024 * 1024
  /\ pc = "read"
  /\ handler_func = "default"
  /\ \E i \in DOMAIN stdout : IsType(stdout[i], T_ready)

\* (witness of C20, the other side) a bundle of one byte more has been rejected
C20_WitnessTooLarge ==
  /\ bundle.size = 10 * 1024 * 1024 + 1
  /\ bundle.top_level.script # << >>
  /\ pc = "exited"
  /\ exit_status = "exit1"

\* C21: the ready record a worker writes is the ready record any other fresh
\* worker process (a process with another process id) writes when started
\* with the same bundle and the same environment variables.
C21_SameReadyRecord ==
  \A i \in DOMAIN stdout :
    IsType(stdout[i], T_ready) =>
      \A p \in Pids : stdout[i] = send_ready(set_worker_id([env EXCEPT !.pid = p]))

\* the level a JSON reader finds in the payload of a log record
LogLevel(l) ==
  LET open == <<123, 34, 108, 101, 118, 101, 108, 34, 58, 34>>        \* {"level":"
      Q == {i \in (Len(open) + 1)..Len(l.payload) : l.payload[i] = 34}
  IN  IF ~StartsWith(l.payload, open) \/ Q = {} THEN NULLPTR
      ELSE SubSeq(l.payload, Len(open) + 1, (CHOOSE i \in Q : \A j \in Q : i <= j) - 1)

\* C22: the level of every log record on stdout is "info", "warn", "error" or
\* "debug", whatever the guest code did.
C22_LogLevels ==
  \A i \in DOMAIN stdout :
    IsType(stdout[i], T_log) =>
      LogLevel(stdout[i]) \in { <<105, 110, 102, 111>>,               \* info
                                <<119, 97, 114, 110>>,                \* warn
                                <<101, 114, 114, 111, 114>>,          \* error
                                <<100, 101, 98, 117, 103>> }          \* debug

\* the payloads of the terminating records written while served[k] was
\* dispatched, each with its type
Answers(k) ==
  {<<stdout[i].type, stdout[i].payload>> : i \in {n \in Window(k) : IsTerminator(stdout[n])}}

\* C23: a handler that hands back the value R and a handler that hands back a
\* promise fulfilled with R are answered with the same response; a handler
\* that throws E and a handler whose promise is rejected with E are answered
\* with the same error, of code HANDLER_ERROR, and with no response.
C23_SyncAsyncUniform ==
  \A j, k \in DOMAIN served :
    /\ ( /\ served[j].called /\ served[j].how = "value" /\ ~served[j].echo
         /\ served[k].called /\ served[k].how = "fulfilled" /\ ~served[k].echo
         /\ served[j].val = served[k].val )
       => /\ Answers(j) = Answers(k)
          /\ \E a \in Answers(j) : Answers(j) = {a} /\ a[1] = T_response
    /\ ( /\ served[j].called /\ served[j].how = "throw"
         /\ served[k].called /\ served[k].how = "rejected"
         /\ served[j].exc = served[k].exc )
       => /\ Answers(j) = Answers(k)
          /\ \E a \in Answers(j) :
               /\ Answers(j) = {a}
               /\ a[1] = T_error
               /\ EndsWith(a[2], <<34, 44, 34, 99, 111, 100, 101, 34, 58, 34, 72, 65, 78,
                                   68, 76, 69, 82, 95, 69, 82, 82, 79, 82, 34, 125>>)

\* (witness of C23) a handler that threw and, on the next line, a handler
\* whose promise was rejected with the same error; both are answered
C23_Witness ==
  /\ Len(served) = 2
  /\ served[1].called /\ served[1].how = "throw"
  /\ served[2].called /\ served[2].how = "rejected"
  /\ served[1].exc = served[2].exc
  /\ Answers(1) # {} /\ Answers(2) # {}

\* C24: when the worker has finished with an invoke line and reads the next
\* one (or end of input), every C string acquired while processing the line
\* has been released exactly once, and the process is still running.
C24_ReleasedExactlyOnce ==
  /\ exit_status # "killed"
  /\ \A k \in DOMAIN served :
       served[k].returned =>
         \A s \in DOMAIN served[k].released : served[k].released[s] = 1

\* C25: whenever the worker is about to read a line of standard input (or
\* has stopped reading), current_invoke_id is empty, whichever way the
\* invocations before ended; it is non-empty only while one invocation is
\* being dispatched.
C25_InvokeIdClearedBetweenLines ==
  pc # "await" => current_invoke_id = << >>

\* (witness of C25) invocations have ended in a handler error and in a
\* response or a missing payload, and the worker is about to read a line
C25_Witness ==
  /\ pc = "read"
  /\ current_invoke_id = << >>
  /\ Len(served) = 2
  /\ \E j, k \in DOMAIN served :
       /\ served[j].called /\ served[j].how \in {"throw", "rejected"}
       /\ \/ ~served[k].has_payload
          \/ served[k].called /\ served[k].how \in {"value", "fulfilled"}

\* (witness of C25) an invocation is being dispatched and the buffer holds
\* its id
C25_WitnessDuring ==
  pc = "await" /\ current_invoke_id # << >>

\* C26: no record with the code HANDLER_NOT_LOADED is ever written, and the
\* worker reads lines of standard input only while it holds a handler.
C26_HandlerNotLoadedUnreachable ==
  /\ \A i \in DOMAIN stdout :
       IsRecord(stdout[i]) => ~HasCode(stdout[i], T_HANDLER_NOT_LOADED)
  /\ pc = "read" => handler_func # "undefined"

\* (witness of C26) two invocations were dispatched, the first ending in an
\* error, and both reached the handler
C26_Witness ==
  /\ Len(served) = 2
  /\ served[1].called /\ served[1].how = "throw"
  /\ served[2].called
  /\ handler_func # "undefined"

\* a is not higher than b, as resource limits compare
LimitLeq(a, b) == b = RLIM_INFINITY \/ (a # RLIM_INFINITY /\ a <= b)

\* the soft limit the claim allows after startup, for the configured value,
\* the limit the process started with and the limit it has now
LoweredOnly(configured, before, after) ==
  IF configured > 0
  THEN /\ after.rlim_cur = new_limit(configured, before.rlim_max)
       /\ LimitLeq(after.rlim_cur, before.rlim_cur)
  ELSE after = before

\* C27: once the resource limits have been applied, the address-space
\* (open-file) soft limit equals min(MAX_MEMORY (MAX_FDS), hard limit) and is
\* not higher than the soft limit the process started with when the value is
\* greater than 0, and is unchanged when it is 0 or unset; a failure to set a
\* limit does not stop startup.
C27_LimitsOnlyLowered ==
  rlimit.enforced =>
    /\ LoweredOnly(caps.max_memory, DefaultRlimit.as, rlimit.as)
    /\ LoweredOnly(caps.max_fds, DefaultRlimit.nofile, rlimit.nofile)
    /\ pc = "new_runtime" => exit_status = "running"

\* the headers JSON the claim assigns to the headers property h of a value
DerivedHeaders(h) ==
  IF h.undefined THEN T_empty_object
  ELSE IF h._headers # JS_UNDEFINED THEN h._headers
  ELSE IF h.headers # JS_UNDEFINED THEN h.headers
  ELSE h.self

\* C28: the response written for a handler that handed back (or fulfilled
\* its promise with) a value carries the value's status, or 200 when it is
\* undefined; as headers the JSON of headers._headers, else of
\* headers.headers, else of the headers object, else {}; and as body the
\* padded standard base64 of a string body (here: of bytes 1..127), the
\* empty string for a null or undefined body.
C28_ResponseDerivation ==
  \A k \in DOMAIN served : \A i \in Window(k) :
    ( /\ IsType(stdout[i], T_response)
      /\ ~served[k].echo
      /\ served[k].body \in {JS_UNDEFINED, JS_NULL}
           \/ \A n \in DOMAIN served[k].body :
                served[k].body[n] >= 1 /\ served[k].body[n] <= 127 )
    => stdout[i].payload =
         send_response(JS_ToCString(served[k].id),
                       IF served[k].val.status = JS_UNDEFINED
                       THEN 200 ELSE served[k].val.status[1],
                       DerivedHeaders(served[k].val.headers),
                       IF served[k].body \in {JS_UNDEFINED, JS_NULL}
                       THEN << >> ELSE Base64Encode(served[k].body)).payload

-----------------------------------------------------------------------------
(* End of input: the process runs on as long as it can take a step, and    *)
(* the host, having sent at most MaxLines lines, closes stdin.             *)

SpecEOF == Spec /\ WF_vars(Next)

\* C29: a worker that reads standard input eventually terminates with exit
\* status 0, every invoke line it read having been dispatched to the end,
\* and the handler released first, then the context, then the runtime.
C29_TerminatesOnEOF ==
  (pc = "read") ~>
    ( /\ pc = "exited"
      /\ exit_status = "exit0"
      /\ \A k \in DOMAIN served : served[k].returned
      /\ freed = <<"handler_func", "ctx", "rt">> )

-----------------------------------------------------------------------------
(* Guest code constructing a Request: the arguments are drawn from strings, *)
(* Request objects and undefined, and from init objects supplying each     *)
(* subset of method, headers (a plain object or a Headers object) and body. *)

T_x_a == <<120, 45, 97>>                 \* x-a
T_X_B == <<88, 45, 66>>                  \* X-B
T_1 == <<49>>                            \* the header value 1
T_2 == <<50>>                            \* the header value 2
T_PUT == <<80, 85, 84>>                  \* PUT
T_POST == <<80, 79, 83, 84>>             \* POST

ShimInputs ==
  { JsUndefined,
    JsString(T_hi),
    RequestObject(JsString(T_hi), JsString(T_GET), HeadersObject(<< >>), JsNull),
    RequestObject(JsString(T_hi), JsString(T_POST),
                  HeadersObject(<< <<T_x_a, JsString(T_1)>> >>), JsString(T_ok)) }

ShimInits ==
  { JsUndefined }
  \cup { RequestInit(m, h, b) :
           m \in {JsUndefined, JsString(T_PUT)},
           h \in {JsUndefined, JsObject(<< <<T_X_B, JsString(T_2)>> >>),
                  HeadersObject(<< <<T_x_a, JsString(T_2)>> >>)},
           b \in {JsUndefined, JsString(T_hi)} }

InitShim ==
  /\ InitGlobals
  /\ env = DefaultEnv
  /\ rlimit = DefaultRlimit
  /\ bundle = GoodBundle
  /\ shim \in { [input |-> i, init |-> n, request |-> JsUndefined] :
                  i \in ShimInputs, n \in ShimInits }

\* code evaluated in the context calls new Request(input, init), once the
\* class has been installed
new_Request ==
  /\ "Request" \in DOMAIN globals
  /\ shim.request = JsUndefined
  /\ shim' = [shim EXCEPT !.request = Request(shim.input, shim.init)]
  /\ UNCHANGED <<pc, env, worker_id, caps, rlimit, rt, globals, stdout, exit_status,
                 handler_func, current_invoke_id, jobs, bundle, nlines, served, freed>>

NextShim ==
  \/ main_init
  \/ main_new_runtime
  \/ main_add_shims
  \/ new_Request

SpecShim == InitShim /\ [][NextShim]_vars

\* the argument o supplies the property f
Supplies(o, f) == o.t \in {"Request", "RequestInit"} /\ truthy(o[f])

\* the value the merge rule gives the property f
Merged(f, default) ==
  IF Supplies(shim.init, f) THEN shim.init[f]
  ELSE IF Supplies(shim.input, f) THEN shim.input[f]
  ELSE default

\* the entries of a headers argument: of a Headers object its entries, of a
\* plain object its properties under lower-cased names
EntriesOf(h) ==
  IF h.t = "Headers" THEN h._headers
  ELSE [i \in DOMAIN h.entries |->
          <<toLowerCase(h.entries[i][1]), JsString(String(h.entries[i][2]))>>]

\* C30: the request new Request(input, init) constructs has each of method,
\* headers and body from init when init supplies it, otherwise from input
\* when input supplies it, otherwise the default (GET, no headers, null); its
\* headers are a Headers object holding exactly the entries of the headers
\* so chosen.
C30_RequestMergeRule ==
  shim.request # JsUndefined =>
    /\ shim.request.method = Merged("method", JsString(T_GET))
    /\ shim.request.body = Merged("body", JsNull)
    /\ shim.request.headers.t = "Headers"
    /\ shim.request.headers._headers = EntriesOf(Merged("headers", HeadersObject(<< >>)))

-----------------------------------------------------------------------------
(* Invokes whose payload object lacks some of its properties: none, each   *)
(* one alone, and all five.                                                *)

T_QQ == <<81, 81, 61, 61>>               \* QQ==, the base64 of the byte A

OmittedSets ==
  { {}, {"method"}, {"path"}, {"headers"}, {"query"}, {"body"},
    {"method", "path", "headers", "query", "body"} }

\* the payload {"method":"POST","path":"/hi","headers":{"a":"b"},"query":{},
\* "body":"QQ=="} without the properties named in omitted
PayloadWithout(omitted) ==
  LET full == PayloadObject(T_POST, T_hi, T_headers_ab, T_empty_object, T_QQ)
  IN  [f \in DOMAIN full |-> IF f \in omitted THEN JS_UNDEFINED ELSE full[f]]

DefaultsLines ==
  { [Line("invoke", id, TRUE, extract_payload(PayloadWithout(o))) EXCEPT !.omitted = o] :
      id \in BodyIds, o \in OmittedSets }

InitDefaults == Init /\ bundle = GoodBundle

NextDefaults ==
  \/ main_init
  \/ main_new_runtime
  \/ main_add_shims
  \/ main_disable_eval
  \/ main_load_bundle
  \/ process_messages(DefaultsLines)
  \/ stdin_eof

SpecDefaults == InitDefaults /\ [][NextDefaults]_vars

\* the arguments execute_handler would get had the omitted properties been
\* "GET", "/", {}, {} and the empty body
WithDefaults(p, omitted) ==
  Payload(IF "method" \in omitted THEN T_GET ELSE p.method,
          IF "path" \in omitted THEN T_slash ELSE p.path,
          IF "headers" \in omitted THEN T_empty_object ELSE p.headers_json,
          IF "query" \in omitted THEN T_empty_object ELSE p.query_json,
          IF "body" \in omitted THEN << >> ELSE p.body_base64)

\* the Request built from the extracted payload p
RequestFor(p) ==
  request_eval(p.method, p.path, p.headers_json, p.query_json, p.body_base64)

\* C31: an invoke whose payload omits method, path, headers, query or body
\* reaches the handler, with the Request that "GET", "/", {}, {} and the
\* empty body in place of the omitted properties would give, and does not
\* end in REQUEST_CREATION_ERROR.
C31_AbsentFieldDefaults ==
  \A k \in DOMAIN served :
    (served[k].has_payload /\ served[k].omitted # {}) =>
      /\ served[k].called
      /\ \A i \in Window(k) :
           IsRecord(stdout[i]) => ~HasCode(stdout[i], T_REQUEST_CREATION_ERROR)
      /\ RequestFor(served[k].payload)
           = RequestFor(WithDefaults(served[k].payload, served[k].omitted))

====
